---- MODULE Spec2Model ----
(***************************************************************************)
(* Model of betwixt's document builder (src/src/lib.rs).                   *)
(*                                                                         *)
(* Document::from_contents drives a LineScanner over the input and folds   *)
(* the scan results (Section, Code, Properties, End) into a section tree   *)
(* and a flat list of code blocks.  The model's state is the state of that *)
(* loop: the current section, the section_frame array of open parents,     *)
(* the blocks vector, and how the call has ended.  One action models one   *)
(* arm of the match on the scan result, including the scan that fetches    *)
(* the next item.                                                          *)
(*                                                                         *)
(* Spec and SpecTree take the scan results from small sets: there a byte   *)
(* slice of the input is modelled by the position of the construct in the  *)
(* document (the n-th construct scanned has slice n), so that two slices   *)
(* are equal exactly when they are the same range of the input, and the    *)
(* scanner's own state stays as constructed.  SpecScan runs the            *)
(* LineScanner and the three recognisers over the bytes of an input; one   *)
(* action is one turn of the scanner's loop, together with the arm of the  *)
(* match when the turn returns a result.                                   *)
(* Option<T> is a sequence of length 0 (None) or 1 (Some).                 *)
(***************************************************************************)
EXTENDS Integers, Sequences, FiniteSets, TLC

VARIABLES
    section,        \* the section being populated (lib.rs:193)
    section_frame,  \* [Option<Section>; 10], index = level whose parent it holds (lib.rs:203)
    blocks,         \* Vec<Code> (lib.rs:192)
    scanned,        \* number of constructs the scanner has returned so far
    item,           \* Option<ScanResult>: the scan result matched last (lib.rs:207)
    status,         \* "running", "ok" (returned Ok(Document)), "err" (returned Err) or "panic"
    document,       \* Option<Document>: the returned value
    scanner,        \* LineScanner { lines, slice, data, strict } (lib.rs:489-496)
    error,          \* Option<BetwixtParseError>: the error from_contents returned
    trace,          \* the windows the scanner has resolved so far, and how
    driver          \* tangle (main.rs:94-209): its filter, the files, its place in code_blocks

vars == <<section, section_frame, blocks, scanned, item, status, document,
          scanner, error, trace, driver>>

----------------------------------------------------------------------------
(* Bounds of the model.                                                    *)

\* Spec: number of constructs in the input, and deepest heading used.
MaxEvents == 4
MaxLevel == 3
\* SpecTree: number of headings in a headings-only input.
MaxHeadings == 5
\* SpecScan: number of lines of the input.
MaxLines == 3

----------------------------------------------------------------------------
(* Program constants.                                                      *)

\* section_frame has 10 slots: 9 heading levels plus the root.
FrameSize == 10
\* Deepest heading level the frame can index.
MaxSupportedLevel == FrameSize - 1

----------------------------------------------------------------------------
(* Option<T>.                                                              *)

None == <<>>
Some(x) == <<x>>
is_none(o) == Len(o) = 0
is_some(o) == Len(o) = 1
unwrap(o) == o[1]
\* Option<bool>::unwrap_or
unwrap_or(o, d) == IF is_some(o) THEN o[1] ELSE d

----------------------------------------------------------------------------
(* Properties and PropertiesCollection.                                    *)

\* Properties { ..Default::default() }: every field None.
DefaultProperties ==
    [filename |-> None, tag |-> None, mode |-> None, ignore |-> None,
     prefix |-> None, postfix |-> None, code |-> None]

\* Variant of merge with the slip of letting the parent win: a field the
\* parent sets is taken from it.
merge_ParentWins(self, parent) ==
    [filename |-> IF is_some(parent.filename) THEN parent.filename ELSE self.filename,
     tag      |-> IF is_some(parent.tag) THEN parent.tag ELSE self.tag,
     mode     |-> IF is_some(parent.mode) THEN parent.mode ELSE self.mode,
     ignore   |-> IF is_some(parent.ignore) THEN parent.ignore ELSE self.ignore,
     prefix   |-> IF is_some(parent.prefix) THEN parent.prefix ELSE self.prefix,
     postfix  |-> IF is_some(parent.postfix) THEN parent.postfix ELSE self.postfix,
     code     |-> self.code]

\* Properties::merge: a field self does not set is taken from parent; the
\* code field is not merged and stays as self has it.
merge(self, parent) ==
    [filename |-> IF is_none(self.filename) THEN parent.filename ELSE self.filename,
     tag      |-> IF is_none(self.tag) THEN parent.tag ELSE self.tag,
     mode     |-> IF is_none(self.mode) THEN parent.mode ELSE self.mode,
     ignore   |-> IF is_none(self.ignore) THEN parent.ignore ELSE self.ignore,
     prefix   |-> IF is_none(self.prefix) THEN parent.prefix ELSE self.prefix,
     postfix  |-> IF is_none(self.postfix) THEN parent.postfix ELSE self.postfix,
     code     |-> self.code]

\* The PropertiesCollection the root section starts with.
EmptyCollection == [global |-> DefaultProperties, languages |-> <<>>]

\* HashMap::contains_key on languages (a function from language to Properties).
contains_key(languages, lang) == lang \in DOMAIN languages

\* HashMap::insert on languages.
insert(languages, lang, props) ==
    [l \in (DOMAIN languages) \cup {lang} |->
        IF l = lang THEN props ELSE languages[l]]

\* Variant of get_code_props with the slip of merging the wrong way round:
\* the global value wins over the language entry's.
get_code_props_GlobalWins(self, lang) ==
    IF is_none(lang) THEN self.global
    ELSE IF ~contains_key(self.languages, unwrap(lang)) THEN self.global
    ELSE merge(self.global, self.languages[unwrap(lang)])

\* PropertiesCollection::get_code_props
get_code_props(self, lang) ==
    IF is_none(lang) THEN self.global
    ELSE IF ~contains_key(self.languages, unwrap(lang)) THEN self.global
    ELSE merge(self.languages[unwrap(lang)], self.global)

\* Variant of update with the slip of completing a language entry from the
\* global properties when it is stored.
update_AbsorbsGlobal(self, lang, props) ==
    IF is_some(lang)
    THEN [self EXCEPT !.languages =
            insert(@, unwrap(lang),
                   merge(IF contains_key(@, unwrap(lang))
                         THEN merge(props, @[unwrap(lang)])
                         ELSE props,
                         self.global))]
    ELSE [self EXCEPT !.global = merge(props, self.global)]

\* PropertiesCollection::update
update(self, lang, props) ==
    IF is_some(lang)
    THEN [self EXCEPT !.languages =
            insert(@, unwrap(lang),
                   IF contains_key(@, unwrap(lang))
                   THEN merge(props, @[unwrap(lang)])
                   ELSE props)]
    ELSE [self EXCEPT !.global = merge(props, self.global)]

----------------------------------------------------------------------------
(* Sections.                                                               *)

\* SectionPart
SectionPart(heading, level) == [heading |-> heading, level |-> level]

\* Section::new
Section_new(part, properties) ==
    [part |-> part, properties |-> properties,
     code_block_indexes |-> <<>>, children |-> <<>>]

\* The root section from_contents starts with: no heading, level 0.
RootSection == Section_new(SectionPart(None, 0), EmptyCollection)

\* Variant of push_child with the slip of inserting the child in front of
\* its siblings.
push_child_Front(parent, child) ==
    [parent EXCEPT !.children = <<child>> \o @]

\* parent.children.push(child)
push_child(parent, child) ==
    [parent EXCEPT !.children = Append(@, child)]

\* [None; 10]
EmptyFrame == [i \in 0 .. FrameSize - 1 |-> None]

----------------------------------------------------------------------------
(* The Section arm (lib.rs:209-266).  Each branch yields the new current   *)
(* section and frame, or panics where the code unwraps an empty slot.      *)

Panicked == [panic |-> TRUE]
Built(sec, frame) == [panic |-> FALSE, section |-> sec, frame |-> frame]

\* Variant of SameLevel with the slip of cloning the closing section's
\* properties instead of the parent's.
SameLevel_ClonesClosing(sec, frame, new) ==
    LET lvl == sec.part.level IN
    IF is_none(frame[lvl]) THEN Panicked
    ELSE Built(Section_new(new, sec.properties),
               [frame EXCEPT ![lvl] = Some(push_child(unwrap(@), sec))])

\* new.level == section.part.level (lib.rs:210-222): the current section is
\* pushed into the parent of its level; the new one clones that parent's
\* properties.
SameLevel(sec, frame, new) ==
    LET lvl == sec.part.level IN
    IF is_none(frame[lvl]) THEN Panicked
    ELSE LET props == unwrap(frame[lvl]).properties
             f1 == [frame EXCEPT ![lvl] = Some(push_child(unwrap(@), sec))]
         IN Built(Section_new(new, props), f1)

\* The first index in from..9 whose slot is occupied, or FrameSize if none
\* (lib.rs:234-239, the loop that ends at the first occupied slot).
RECURSIVE NextOccupied(_, _)
NextOccupied(frame, from) ==
    IF from >= FrameSize THEN FrameSize
    ELSE IF is_some(frame[from]) THEN from
    ELSE NextOccupied(frame, from + 1)

\* section_frame.swap(a, b)
swap(frame, a, b) == [frame EXCEPT ![a] = frame[b], ![b] = frame[a]]

\* lib.rs:232-240: when the slot of the new level is empty, the next deeper
\* occupied slot is moved into it.
Promote(frame, level) ==
    IF is_none(frame[level])
    THEN LET idx == NextOccupied(frame, level + 1) IN
         IF idx < FrameSize THEN swap(frame, level, idx) ELSE frame
    ELSE frame

\* lib.rs:243-254 and 308-323: for idx from hi down to lo, an occupied slot
\* is emptied and its section pushed into the children of the slot indexed
\* by the section's own level.  An empty parent slot ends the walk: stop
\* names the section that found no parent.
RECURSIVE Reconcile(_, _, _)
Reconcile(frame, idx, lo) ==
    IF idx < lo THEN [stop |-> None, frame |-> frame]
    ELSE IF is_none(frame[idx]) THEN Reconcile(frame, idx - 1, lo)
    ELSE LET child == unwrap(frame[idx])
             f1 == [frame EXCEPT ![idx] = None]
         IN IF is_none(f1[child.part.level])
            THEN [stop |-> Some(child), frame |-> f1]
            ELSE Reconcile(
                    [f1 EXCEPT ![child.part.level] = Some(push_child(unwrap(@), child))],
                    idx - 1, lo)

\* Variant of Ascend with the slip of pushing the closing section into the
\* parent of the new level instead of the parent of its own level.
Ascend_PushesAtNewLevel(sec, frame, new) ==
    LET f0 == Promote(frame, new.level) IN
    IF is_none(f0[new.level]) THEN Panicked
    ELSE LET f1 == [f0 EXCEPT ![new.level] = Some(push_child(unwrap(@), sec))]
             r  == Reconcile(f1, FrameSize - 1, new.level + 1)
         IN IF is_some(r.stop) THEN Panicked
            ELSE Built(Section_new(new, unwrap(r.frame[new.level]).properties),
                       r.frame)

\* new.level < section.part.level (lib.rs:223-259).
Ascend(sec, frame, new) ==
    LET lvl == sec.part.level IN
    IF is_none(frame[lvl]) THEN Panicked
    ELSE LET f1 == [frame EXCEPT ![lvl] = Some(push_child(unwrap(@), sec))]
             f2 == Promote(f1, new.level)
             r  == Reconcile(f2, FrameSize - 1, new.level + 1)
         IN IF is_some(r.stop) THEN Panicked
            ELSE IF is_none(r.frame[new.level]) THEN Panicked
            ELSE Built(Section_new(new, unwrap(r.frame[new.level]).properties),
                       r.frame)

\* Variant of Descend with the slip of giving the child fresh properties
\* instead of a clone of the current section's.
Descend_FreshProperties(sec, frame, new) ==
    IF new.level >= FrameSize THEN Panicked
    ELSE Built(Section_new(new, EmptyCollection),
               [frame EXCEPT ![new.level] = Some(sec)])

\* new.level > section.part.level (lib.rs:260-265): the current section
\* becomes the parent held at the new level; indexing past the array panics.
Descend(sec, frame, new) ==
    IF new.level >= FrameSize THEN Panicked
    ELSE Built(Section_new(new, sec.properties),
               [frame EXCEPT ![new.level] = Some(sec)])

\* Variant of OnSection with the slip of treating a heading of the current
\* level as a deeper one.
OnSection_EqualDescends(sec, frame, new) ==
    IF new.level < sec.part.level
    THEN LET lvl == sec.part.level IN
         IF is_none(frame[lvl]) THEN Panicked
         ELSE LET f1 == [frame EXCEPT ![lvl] = Some(push_child(unwrap(@), sec))]
                  r  == Reconcile(Promote(f1, new.level), FrameSize - 1, new.level + 1)
              IN IF is_some(r.stop) \/ is_none(r.frame[new.level]) THEN Panicked
                 ELSE Built(Section_new(new, unwrap(r.frame[new.level]).properties),
                            r.frame)
    ELSE IF new.level >= FrameSize THEN Panicked
    ELSE Built(Section_new(new, sec.properties),
               [frame EXCEPT ![new.level] = Some(sec)])

\* The whole Section arm.
OnSection(sec, frame, new) ==
    IF new.level = sec.part.level THEN SameLevel(sec, frame, new)
    ELSE IF new.level < sec.part.level THEN Ascend(sec, frame, new)
    ELSE Descend(sec, frame, new)

\* After the loop (lib.rs:303-325): the current section is pushed into the
\* parent of its level, then the frame is unwound from the deepest slot;
\* the first section whose parent slot is empty is returned as the root.
Finish(sec, frame) ==
    LET lvl == sec.part.level IN
    IF is_none(frame[lvl]) THEN Panicked
    ELSE LET f1 == [frame EXCEPT ![lvl] = Some(push_child(unwrap(@), sec))]
             r  == Reconcile(f1, FrameSize - 1, 0)
         IN IF is_none(r.stop) THEN Panicked
            ELSE [panic |-> FALSE, root |-> unwrap(r.stop), frame |-> r.frame]

----------------------------------------------------------------------------
(* The Code and Properties arms.                                           *)

\* CodePart
CodePart(contents, lang) == [contents |-> contents, lang |-> lang]

\* Code
Code(properties, part) == [properties |-> properties, part |-> part]

\* Variant of OnCode with the slip of recording the index of the block in
\* the root-level default instead of the current section: the index is not
\* pushed when the section has a heading.
OnCode_IndexInRootOnly(sec, blks, code) ==
    LET props == get_code_props(sec.properties, code.lang) IN
    IF ~unwrap_or(props.ignore, FALSE)
    THEN [section |-> IF is_none(sec.part.heading)
                      THEN [sec EXCEPT !.code_block_indexes = Append(@, Len(blks))]
                      ELSE sec,
          blocks  |-> Append(blks, [properties |-> props, part |-> code])]
    ELSE [section |-> sec, blocks |-> blks]

\* Variant of OnCode with the slip of pushing the index before the ignore
\* test.
OnCode_IndexBeforeTest(sec, blks, code) ==
    LET props == get_code_props(sec.properties, code.lang)
        s1 == [sec EXCEPT !.code_block_indexes = Append(@, Len(blks))]
    IN IF ~unwrap_or(props.ignore, FALSE)
       THEN [section |-> s1, blocks |-> Append(blks, [properties |-> props, part |-> code])]
       ELSE [section |-> s1, blocks |-> blks]

\* Variant of OnCode with the slip of putting the block at the front of the
\* list.
OnCode_PushesFront(sec, blks, code) ==
    LET props == get_code_props(sec.properties, code.lang) IN
    IF ~unwrap_or(props.ignore, FALSE)
    THEN [section |-> [sec EXCEPT !.code_block_indexes = Append(@, Len(blks))],
          blocks  |-> <<Code(props, code)>> \o blks]
    ELSE [section |-> sec, blocks |-> blks]

\* ScanResult::Code (lib.rs:267-276): the block is resolved against the
\* current section and kept unless its resolved ignore is true.
OnCode(sec, blks, code) ==
    LET props == get_code_props(sec.properties, code.lang) IN
    IF ~unwrap_or(props.ignore, FALSE)
    THEN [section |-> [sec EXCEPT !.code_block_indexes = Append(@, Len(blks))],
          blocks  |-> Append(blks, Code(props, code))]
    ELSE [section |-> sec, blocks |-> blks]

\* Variant of OnProperties with the slip of taking the index after the
\* block has been pushed.
OnProperties_IndexAfterPush(sec, blks, lang, props) ==
    IF is_some(props.code)
    THEN LET s1 == [sec EXCEPT !.properties = update(@, lang, props)]
             resolved == get_code_props(s1.properties, lang)
             pushed == Append(blks, [properties |-> resolved,
                                     part |-> [contents |-> unwrap(props.code), lang |-> lang]])
         IN [section |-> [s1 EXCEPT !.code_block_indexes = Append(@, Len(pushed))],
             blocks  |-> pushed]
    ELSE [section |-> [sec EXCEPT !.properties = update(@, lang, props)],
          blocks  |-> blks]

\* Variant of OnProperties with the slip of resolving the block's properties
\* before the annotation has been applied.
OnProperties_ResolvesBeforeUpdate(sec, blks, lang, props) ==
    IF is_some(props.code)
    THEN LET s1 == [sec EXCEPT !.code_block_indexes = Append(@, Len(blks))]
             resolved == get_code_props(s1.properties, lang)
             s2 == [s1 EXCEPT !.properties = update(@, lang, props)]
         IN [section |-> s2,
             blocks  |-> Append(blks, [properties |-> resolved,
                                       part |-> [contents |-> unwrap(props.code), lang |-> lang]])]
    ELSE [section |-> [sec EXCEPT !.properties = update(@, lang, props)],
          blocks  |-> blks]

\* ScanResult::Properties (lib.rs:277-293): an annotation with a code field
\* pushes the index, updates the section's properties and emits a block
\* resolved after the update; any other annotation only updates.
OnProperties(sec, blks, lang, props) ==
    IF is_some(props.code)
    THEN LET s1 == [sec EXCEPT !.code_block_indexes = Append(@, Len(blks))]
             s2 == [s1 EXCEPT !.properties = update(@, lang, props)]
             resolved == get_code_props(s2.properties, lang)
         IN [section |-> s2,
             blocks  |-> Append(blks, Code(resolved, CodePart(unwrap(props.code), lang)))]
    ELSE [section |-> [sec EXCEPT !.properties = update(@, lang, props)],
          blocks  |-> blks]

----------------------------------------------------------------------------
(* Inputs.  The scanner's results are drawn from small sets; the slice a   *)
(* construct carries (heading text, block contents, code payload) is the   *)
(* construct's position in the document.                                   *)

\* Languages on code fences: none, one that annotations qualify, one that
\* no annotation mentions.
CodeLangs == {None, Some("rust"), Some("py")}

\* TangleMode values are tuples: <<"Overwrite">>, <<"Insert", marker>>, ...
Overwrite == <<"Overwrite">>

\* Annotation bodies as the betwixt recogniser returns them.  inline says
\* whether the body has a code field; its payload is filled in on scanning.
Annotations ==
    { [lang |-> None, inline |-> FALSE,
       props |-> [DefaultProperties EXCEPT !.filename = Some("a")]],
      [lang |-> None, inline |-> FALSE,
       props |-> [DefaultProperties EXCEPT !.filename = Some("b"),
                     !.tag = Some("t"), !.mode = Some(Overwrite),
                     !.prefix = Some("p"), !.postfix = Some("q")]],
      [lang |-> None, inline |-> FALSE,
       props |-> [DefaultProperties EXCEPT !.ignore = Some(TRUE)]],
      [lang |-> None, inline |-> TRUE,
       props |-> DefaultProperties],
      [lang |-> Some("rust"), inline |-> FALSE,
       props |-> [DefaultProperties EXCEPT !.filename = Some("c")]],
      [lang |-> Some("rust"), inline |-> FALSE,
       props |-> [DefaultProperties EXCEPT !.ignore = Some(FALSE)]],
      [lang |-> Some("rust"), inline |-> TRUE,
       props |-> [DefaultProperties EXCEPT !.tag = Some("u")]] }

----------------------------------------------------------------------------
(* State machine.                                                          *)

\* ScanResult
ScanResult_Section(part) == [kind |-> "Section", part |-> part]
ScanResult_Code(part) == [kind |-> "Code", part |-> part]
ScanResult_Properties(lang, props) == [kind |-> "Properties", lang |-> lang, props |-> props]
ScanResult_End == [kind |-> "End"]

\* LineScanner::new
LineScanner_new(data, strict) ==
    [lines |-> <<>>, slice |-> <<0, 0>>, data |-> data, strict |-> strict]

\* from_contents is called by a program other than tangle: no filter, no
\* files, no block to write.
NoDriver ==
    [phase |-> "none", tag |-> None, files |-> <<>>, next |-> 0, log |-> <<>>]

\* The locals of from_contents before the first scan result is matched.
InitBuilder ==
    /\ section = RootSection
    /\ section_frame = EmptyFrame
    /\ blocks = <<>>
    /\ scanned = 0
    /\ item = None
    /\ status = "running"
    /\ document = None
    /\ error = None
    /\ trace = <<>>

Init ==
    /\ InitBuilder
    /\ scanner = LineScanner_new("", FALSE)
    /\ driver = NoDriver

\* The scanner returns a heading of the given level.
SectionStep(level) ==
    /\ status = "running"
    /\ scanned' = scanned + 1
    /\ LET new == SectionPart(Some(scanned + 1), level)
           r == OnSection(section, section_frame, new)
       IN /\ item' = Some(ScanResult_Section(new))
          /\ IF r.panic
             THEN /\ status' = "panic"
                  /\ UNCHANGED <<section, section_frame, blocks, document>>
             ELSE /\ section' = r.section
                  /\ section_frame' = r.frame
                  /\ UNCHANGED <<blocks, status, document>>
    /\ UNCHANGED <<scanner, error, trace>>
    /\ UNCHANGED driver

\* The scanner returns a fenced code block.
CodeStep(lang) ==
    /\ status = "running"
    /\ scanned' = scanned + 1
    /\ LET code == CodePart(scanned + 1, lang)
           r == OnCode(section, blocks, code)
       IN /\ item' = Some(ScanResult_Code(code))
          /\ section' = r.section
          /\ blocks' = r.blocks
    /\ UNCHANGED <<section_frame, status, document, scanner, error, trace>>
    /\ UNCHANGED driver

\* The scanner returns an annotation.
PropertiesStep(lang, props) ==
    /\ status = "running"
    /\ scanned' = scanned + 1
    /\ item' = Some(ScanResult_Properties(lang, props))
    /\ LET r == OnProperties(section, blocks, lang, props)
       IN /\ section' = r.section
          /\ blocks' = r.blocks
    /\ UNCHANGED <<section_frame, status, document, scanner, error, trace>>
    /\ UNCHANGED driver

\* The scanner returns End: the loop breaks and the tree is closed.
EndStep ==
    /\ status = "running"
    /\ item' = Some(ScanResult_End)
    /\ LET r == Finish(section, section_frame)
       IN IF r.panic
          THEN /\ status' = "panic"
               /\ UNCHANGED <<section_frame, document>>
          ELSE /\ status' = "ok"
               /\ section_frame' = r.frame
               /\ document' = Some([code_blocks |-> blocks, root |-> r.root])
    /\ UNCHANGED <<section, blocks, scanned, scanner, error, trace>>
    /\ UNCHANGED driver

\* Payload of an annotation scanned as the n-th construct.
WithPayload(a, n) ==
    [a.props EXCEPT !.code = IF a.inline THEN Some(n) ELSE None]

ScanSection ==
    /\ scanned < MaxEvents
    /\ \E level \in 1 .. MaxLevel : SectionStep(level)

ScanCode ==
    /\ scanned < MaxEvents
    /\ \E lang \in CodeLangs : CodeStep(lang)

ScanProperties ==
    /\ scanned < MaxEvents
    /\ \E a \in Annotations : PropertiesStep(a.lang, WithPayload(a, scanned + 1))

ScanEnd == EndStep

Next == ScanSection \/ ScanCode \/ ScanProperties \/ ScanEnd

Spec == Init /\ [][Next]_vars

\* Inputs made of headings only, of every supported level.
TreeSection ==
    /\ scanned < MaxHeadings
    /\ \E level \in 1 .. MaxSupportedLevel : SectionStep(level)

TreeEnd == EndStep

NextTree == TreeSection \/ TreeEnd

SpecTree == Init /\ [][NextTree]_vars

----------------------------------------------------------------------------
(* Bytes.  The input is a string; offsets are 0-based as in the code, so   *)
(* the window &data[p..e] is the bytes data[p+1] .. data[e] of the string. *)
(* A slice is kept with its offset and its bytes.                          *)

\* &data[p..q]
slice(data, p, q) == [ptr |-> p, bytes |-> SubSeq(data, p + 1, q)]

\* nom::character::is_space, space0: a blank or a tab.
Space == {" ", "\t"}
\* nom::character::is_newline
Newline == {"\n"}
\* alpha1: ASCII letters.
Alphabetic ==
    {"a", "b", "c", "d", "e", "f", "g", "h", "i", "j", "k", "l", "m",
     "n", "o", "p", "q", "r", "s", "t", "u", "v", "w", "x", "y", "z",
     "A", "B", "C", "D", "E", "F", "G", "H", "I", "J", "K", "L", "M",
     "N", "O", "P", "Q", "R", "S", "T", "U", "V", "W", "X", "Y", "Z"}
\* nom::character::is_alphanumeric
Alphanumeric == Alphabetic \cup {"0", "1", "2", "3", "4", "5", "6", "7", "8", "9"}

\* tag(t) succeeds on &data[p..e]; the rest then starts at p + Len(t).
tag(t, data, p, e) ==
    /\ p + Len(t) <= e
    /\ SubSeq(data, p + 1, p + Len(t)) = t

\* take_while(c in S) on &data[p..e]: the offset of the first byte that is
\* not in S (e when there is none).
RECURSIVE take_while(_, _, _, _)
take_while(S, data, p, e) ==
    IF p < e /\ SubSeq(data, p + 1, p + 1) \in S
    THEN take_while(S, data, p + 1, e)
    ELSE p

\* take_until(t) on &data[p..e]: the offset of the first occurrence of t,
\* or -1 when t does not occur (the parser's error).
RECURSIVE take_until(_, _, _, _)
take_until(t, data, p, e) ==
    IF p + Len(t) > e THEN -1
    ELSE IF tag(t, data, p, e) THEN p
    ELSE take_until(t, data, p + 1, e)

----------------------------------------------------------------------------
(* TangleMode and the property grammar (lib.rs:35-49, 550-692).            *)

TangleMode_Append == <<"Append">>
TangleMode_Prepend == <<"Prepend">>
TangleMode_Insert(marker) == <<"Insert", marker>>

\* Variant of from_bytes with the slip of not requiring the whole input to
\* be consumed.
from_bytes_Prefix(data, p, e) ==
    IF tag("overwrite", data, p, e) THEN Some(Overwrite)
    ELSE IF tag("append", data, p, e) THEN Some(TangleMode_Append)
    ELSE IF tag("prepend", data, p, e) THEN Some(TangleMode_Prepend)
    ELSE IF tag("insert", data, p, e) /\ tag("[", data, p + 6, e)
    THEN LET q == take_until("]", data, p + 7, e) IN
         IF q > p + 7
         THEN Some(TangleMode_Insert(slice(data, p + 7, q)))
         ELSE None
    ELSE None

\* TangleMode::from_bytes on &data[p..e]: the first alternative whose word
\* matches is taken and must consume the whole input.
from_bytes(data, p, e) ==
    IF tag("overwrite", data, p, e)
    THEN IF p + 9 = e THEN Some(Overwrite) ELSE None
    ELSE IF tag("append", data, p, e)
    THEN IF p + 6 = e THEN Some(TangleMode_Append) ELSE None
    ELSE IF tag("prepend", data, p, e)
    THEN IF p + 7 = e THEN Some(TangleMode_Prepend) ELSE None
    ELSE IF tag("insert", data, p, e) /\ tag("[", data, p + 6, e)
    THEN LET q == take_until("]", data, p + 7, e) IN
         IF q > p + 7 /\ q + 1 = e
         THEN Some(TangleMode_Insert(slice(data, p + 7, q)))
         ELSE None
    ELSE None

FILENAME_PROP == "filename"
TAG_PROP == "tag"
CODE_PROP == "code"
TANGLE_MODE_PROP == "mode"
IGNORE_PROP == "ignore"
PREFIX_PROP == "pre"
POSTFIX_PROP == "post"

\* A parser's error, and its success with the offset of the rest.
Failed == [ok |-> FALSE]
Parsed(rest, out) == [ok |-> TRUE, rest |-> rest, out |-> out]

\* alt((tag("'"), tag("\""), tag("|||"))) on &data[p..e]: the quote that
\* stands there, "" when none does.
quote_at(data, p, e) ==
    IF tag("'", data, p, e) THEN "'"
    ELSE IF tag("\"", data, p, e) THEN "\""
    ELSE IF tag("|||", data, p, e) THEN "|||"
    ELSE ""

\* terminated(take_until(quote), pair(tag(quote), space0)): q is where the
\* closing quote was found from p on.
property_value(quote, data, p, q, e) ==
    IF q < 0 THEN Failed
    ELSE Parsed(take_while(Space, data, q + Len(quote), e), slice(data, p, q))

\* The value that opens with the given quote at p.
property_quoted(quote, data, p, e) ==
    IF quote = "" THEN Failed
    ELSE property_value(quote, data, p + Len(quote),
                        take_until(quote, data, p + Len(quote), e), e)

\* tuple((tag(t), tag("="))) and the quoted value after it.
property_named(t, data, p, e) ==
    IF ~tag(t \o "=", data, p, e) THEN Failed
    ELSE property_quoted(quote_at(data, p + Len(t) + 1, e), data, p + Len(t) + 1, e)

\* property(t) on &data[p..e]: blanks and newlines, t, "=", a quote, the
\* value up to the same quote, the quote, blanks.
property(t, data, p, e) ==
    property_named(t, data, take_while(Space \cup Newline, data, p, e), e)

\* pair(tag(t), tag("=")), alt((tag("true"), tag("false"))), opt(space0)
bool_named(t, data, p, e) ==
    IF ~tag(t \o "=", data, p, e) THEN Failed
    ELSE IF tag("true", data, p + Len(t) + 1, e)
    THEN Parsed(take_while(Space, data, p + Len(t) + 5, e), TRUE)
    ELSE IF tag("false", data, p + Len(t) + 1, e)
    THEN Parsed(take_while(Space, data, p + Len(t) + 6, e), FALSE)
    ELSE Failed

\* bool_property(t) on &data[p..e].
bool_property(t, data, p, e) ==
    bool_named(t, data, take_while(Space \cup Newline, data, p, e), e)

\* The parsers handed to opt_permutation, in its order (lib.rs:675).
PermutationSize == 7
nth_parser(k, data, p, e) ==
    CASE k = 1 -> property(FILENAME_PROP, data, p, e)
      [] k = 2 -> property(PREFIX_PROP, data, p, e)
      [] k = 3 -> property(POSTFIX_PROP, data, p, e)
      [] k = 4 -> property(TAG_PROP, data, p, e)
      [] k = 5 -> property(TANGLE_MODE_PROP, data, p, e)
      [] k = 6 -> property(CODE_PROP, data, p, e)
      [] k = 7 -> bool_property(IGNORE_PROP, data, p, e)

\* lib.rs:612-618: the k-th parser has no result yet and r is what it
\* returns on the current input.
permutation_try(st, k, r) ==
    IF is_none(st.results[k]) /\ r.ok
    THEN [results |-> [st.results EXCEPT ![k] = Some(r.out)],
          input |-> r.rest, success |-> TRUE]
    ELSE st

\* One pass of the body of opt_permutation's loop, from parser k on: each
\* parser without a result yet is tried on the current input.
RECURSIVE permutation_pass(_, _, _, _)
permutation_pass(st, k, data, e) ==
    IF k > PermutationSize THEN st
    ELSE permutation_pass(permutation_try(st, k, nth_parser(k, data, st.input, e)),
                          k + 1, data, e)

\* Variant of permutation_loop with the slip of a single pass.
permutation_loop_Once(st, data, e) ==
    permutation_pass([st EXCEPT !.success = FALSE], 1, data, e)

\* opt_permutation's loop: passes are repeated until one matches nothing;
\* st is the state after a pass.
RECURSIVE permutation_loop(_, _, _)
permutation_loop(st, data, e) ==
    IF st.success
    THEN permutation_loop(permutation_pass([st EXCEPT !.success = FALSE], 1, data, e),
                          data, e)
    ELSE st

opt_permutation(data, p, e) ==
    permutation_loop([results |-> [k \in 1 .. PermutationSize |-> None],
                      input |-> p, success |-> TRUE], data, e)

\* lib.rs:684-687: the mode value, when there is one, as a TangleMode.
parse_mode(data, value) ==
    IF is_some(value)
    THEN from_bytes(data, unwrap(value).ptr, unwrap(value).ptr + Len(unwrap(value).bytes))
    ELSE None

\* lib.rs:677-691: the Properties built from the permutation's results.
properties_built(res, mode, e) ==
    IF is_some(res[5]) /\ is_none(mode) THEN Failed
    ELSE Parsed(e, [filename |-> res[1], tag |-> res[4], mode |-> mode,
                    ignore |-> res[7], prefix |-> res[2], postfix |-> res[3],
                    code |-> res[6]])

\* all_consuming (lib.rs:674): st is what opt_permutation returned.
properties_consumed(st, data, e) ==
    IF st.input # e THEN Failed
    ELSE properties_built(st.results, parse_mode(data, st.results[5]), e)

\* properties on the body &data[p..e]: the permutation must consume the
\* whole body and a mode value must be a TangleMode.
properties(data, p, e) ==
    properties_consumed(opt_permutation(data, p, e), data, e)

----------------------------------------------------------------------------
(* The recognisers (lib.rs:384-478).  Each is applied to the window        *)
(* &data[p..e] and returns Ok(LineParseResult) or an error.                *)

BETWIXT_TOKEN == "<?btxt"
CLOSE_TOKEN == "?>"

\* LineParseResult
Matched(m) == [matched |-> TRUE, result |-> m]
PartialMatch == [matched |-> FALSE]

\* IResult of a recogniser: Ok, Err(Error(NoMatch)) or
\* Err(Failure(InvalidProperties)).
Ok(r) == [ok |-> TRUE, failure |-> FALSE, out |-> r]
NoMatch == [ok |-> FALSE, failure |-> FALSE, err |-> "NoMatch"]
InvalidProperties == [ok |-> FALSE, failure |-> TRUE, err |-> "InvalidProperties"]

\* locate_parser_match over the closing fence (lib.rs:414-430, 438-442):
\* the first offset from idx on at which code_end, blanks and a newline
\* stand; None when there is none.
RECURSIVE locate_parser_match(_, _, _, _)
locate_parser_match(code_end, data, idx, e) ==
    IF idx >= e THEN None
    ELSE IF /\ tag(code_end, data, idx, e)
            /\ tag("\n", data, take_while(Space, data, idx + Len(code_end), e), e)
    THEN Some(idx)
    ELSE locate_parser_match(code_end, data, idx + 1, e)

\* Variant of code_closed with the slip of no match while the closing fence
\* is missing.
code_closed_GivesUp(data, lang, input, end_idx) ==
    IF is_none(end_idx) THEN NoMatch
    ELSE Ok(Matched(ScanResult_Code(
               CodePart(slice(data, input, unwrap(end_idx)), lang))))

\* lib.rs:443-456: end_idx is what the search for the closing fence gave.
code_closed(data, lang, input, end_idx) ==
    IF is_none(end_idx) THEN Ok(PartialMatch)
    ELSE Ok(Matched(ScanResult_Code(
               CodePart(slice(data, input, unwrap(end_idx)), lang))))

\* tag("\n") of the opening line at p, and the search for the closing fence
\* in what follows it.
code_opened(code_end, data, lang, p, e) ==
    IF ~tag("\n", data, p, e) THEN NoMatch
    ELSE code_closed(data, lang, p + 1,
                     locate_parser_match(code_end, data, p + 1, e))

\* opt(alpha1) from p to q, then space0.
code_lang(code_end, data, p, q, e) ==
    code_opened(code_end, data,
                IF q > p THEN Some(SubSeq(data, p + 1, q)) ELSE None,
                take_while(Space, data, q, e), e)

\* code(code_start, code_end)
code(code_start, code_end, data, p, e) ==
    IF ~tag(code_start, data, p, e) THEN NoMatch
    ELSE code_lang(code_end, data, p + Len(code_start),
                   take_while(Alphabetic, data, p + Len(code_start), e), e)

\* peek(take_until1("\n")): the heading runs from p to the newline at nl.
section_heading(data, level, p, nl) ==
    IF nl <= p THEN NoMatch
    ELSE Ok(Matched(ScanResult_Section(
               SectionPart(Some(slice(data, p, nl)), level))))

\* Variant of section_marked with the slip of take_while for the blanks
\* after the markers.
section_marked_NoGap(data, p, p1, p2, e) ==
    IF p1 = p THEN NoMatch
    ELSE section_heading(data, p1 - p, p2, take_until("\n", data, p2, e))

\* take_while1(is_space) from p1 to p2, after the markers from p to p1.
section_marked(data, p, p1, p2, e) ==
    IF p1 = p \/ p2 = p1 THEN NoMatch
    ELSE section_heading(data, p1 - p, p2, take_until("\n", data, p2, e))

\* take_while1(c == mark) from p to p1.
section_markers(data, p, p1, e) ==
    section_marked(data, p, p1, take_while(Space, data, p1, e), e)

\* section(mark)
section_(mark, data, p, e) ==
    section_markers(data, p, take_while({mark}, data, p, e), e)

\* Variant of betwixt_body with the slip of a recoverable error for an
\* invalid body.
betwixt_body_Recoverable(lang, body) ==
    IF ~body.ok THEN NoMatch
    ELSE Ok(Matched(ScanResult_Properties(lang, body.out)))

\* Variant of betwixt_body with the slip of matching an annotation whose
\* body is invalid, with no assignment.
betwixt_body_Lenient(lang, body) ==
    IF ~body.ok THEN Ok(Matched(ScanResult_Properties(lang, DefaultProperties)))
    ELSE Ok(Matched(ScanResult_Properties(lang, body.out)))

\* lib.rs:404-409: body is what properties returned on the annotation's body.
betwixt_body(lang, body) ==
    IF ~body.ok THEN InvalidProperties
    ELSE Ok(Matched(ScanResult_Properties(lang, body.out)))

\* Variant of betwixt_closed with the slip of no match while the end
\* delimiter is missing.
betwixt_closed_GivesUp(data, lang, p, q) ==
    IF q < 0 THEN NoMatch
    ELSE betwixt_body(lang, properties(data, p, q))

\* take_until(end) from p, where the body starts; q is where end was found.
betwixt_closed(data, lang, p, q) ==
    IF q < 0 THEN Ok(PartialMatch)
    ELSE betwixt_body(lang, properties(data, p, q))

\* opt(preceded(tag("+"), take_while(is_alphanumeric))) from p; p2 is where
\* the qualifier ends.
betwixt_lang(end, data, p, p2, e) ==
    betwixt_closed(data,
                   IF tag("+", data, p, e) THEN Some(SubSeq(data, p + 2, p2)) ELSE None,
                   p2, take_until(end, data, p2, e))

\* betwixt(start, end)
betwixt(start, end, data, p, e) ==
    IF ~tag(start, data, p, e) THEN NoMatch
    ELSE betwixt_lang(end, data, p + Len(start),
                      IF tag("+", data, p + Len(start), e)
                      THEN take_while(Alphanumeric, data, p + Len(start) + 1, e)
                      ELSE p + Len(start),
                      e)

\* The fence of the driver's Nested flavour (main.rs:125-130).
FENCE == "'''"

\* alt: r is what the earlier alternatives returned; the next one is tried
\* only after Err(Error).
alt_section(r, data, p, e) ==
    IF r.ok \/ r.failure THEN r ELSE section_("#", data, p, e)
alt_betwixt(r, data, p, e) ==
    IF r.ok \/ r.failure THEN r ELSE betwixt(BETWIXT_TOKEN, CLOSE_TOKEN, data, p, e)

\* alt((parsers.code, parsers.section, parsers.betwixt)) with the parsers
\* the driver builds for that flavour.
parser(data, p, e) ==
    alt_betwixt(alt_section(code(FENCE, FENCE, data, p, e), data, p, e), data, p, e)

----------------------------------------------------------------------------
(* LineScanner::scan (lib.rs:507-547), one turn of its loop per action.    *)

\* Variant of extend with the slip of leaving the window end on the newline
\* instead of after it.
extend_OnNewline(self) ==
    LET len == Len(self.data)
        nl == take_until("\n", self.data, self.slice[2], len)
        line_end == IF nl >= 0 THEN nl ELSE len
    IN [self EXCEPT !.lines = Append(@, line_end),
                    !.slice = <<@[1], line_end>>]

\* lib.rs:512-520: the window is extended by one line, whose end offset is
\* recorded; the new window end is just past the line's newline, or the end
\* of the input.
extend(self) ==
    LET len == Len(self.data)
        nl == take_until("\n", self.data, self.slice[2], len)
        line_end == IF nl >= 0 THEN nl ELSE len
        new_end == IF line_end + 1 < len THEN line_end + 1 ELSE len
    IN [self EXCEPT !.lines = Append(@, line_end),
                    !.slice = <<@[1], new_end>>]

\* Variant of advance with the slip of moving the window start to what the
\* recogniser left: the byte after the first end delimiter of the window, if
\* there is one.
advance_ToRemaining(self) ==
    LET q == take_until(CLOSE_TOKEN, self.data, self.slice[1], self.slice[2])
    IN IF q < 0 THEN [self EXCEPT !.slice = <<@[2], @[2]>>]
       ELSE [self EXCEPT !.slice = <<q + Len(CLOSE_TOKEN), q + Len(CLOSE_TOKEN)>>]

\* self.slice = (self.slice.1, self.slice.1)
advance(self) == [self EXCEPT !.slice = <<@[2], @[2]>>]

\* parser.parse(&self.data[self.slice.0..self.slice.1])
parse_window(self) == parser(self.data, self.slice[1], self.slice[2])

\* BetwixtParseError::InvalidProperties, the value scan returns in Err: a
\* variant without fields.
BetwixtParseError_InvalidProperties == [variant |-> "InvalidProperties"]

\* The lines inputs are made of: a heading, a fence, the opener of an
\* annotation whose code value runs over the following lines, the line
\* that closes that value and the annotation, a valid annotation, an
\* annotation with inline code, an annotation with a valid assignment
\* followed by stray text, plain text.
Lines ==
    {"# A", "'''", "<?btxt code='", "' ?>",
     "<?btxt tag='t' ?>", "<?btxt code='c' ?>", "<?btxt tag='t' x ?>", "x"}

\* The inputs of exactly n lines, each ended by a newline.
RECURSIVE Texts(_)
Texts(n) ==
    IF n = 0 THEN {""}
    ELSE {t \o l \o "\n" : t \in Texts(n - 1), l \in Lines}

\* The inputs of at most MaxLines lines; the last line may lack its newline.
Inputs ==
    UNION {Texts(n) : n \in 0 .. MaxLines}
    \cup UNION {{t \o l : t \in Texts(n), l \in Lines} : n \in 0 .. MaxLines - 1}

InitScan ==
    /\ InitBuilder
    /\ \E data \in Inputs, strict \in BOOLEAN :
         scanner = LineScanner_new(data, strict)
    /\ driver = NoDriver

\* A window the scanner has resolved: matched with a result, skipped, or
\* returned as an error.
Resolved(self, outcome, result) ==
    [window |-> self.slice, outcome |-> outcome, result |-> result]

\* while self.slice.1 != self.data.len()
MoreInput == status = "running" /\ scanner.slice[2] # Len(scanner.data)

\* LineParseResult::PartialMatch (lib.rs:527): the loop goes on with the
\* extended window.
ScanPartialMatch ==
    /\ MoreInput
    /\ \E self \in {extend(scanner)} : \E r \in {parse_window(self)} :
          /\ r.ok /\ ~r.out.matched
          /\ scanner' = self
    /\ UNCHANGED <<section, section_frame, blocks, scanned, item, status,
                   document, error, trace>>
    /\ UNCHANGED driver

\* Err with NoMatch, or any Err when not strict (lib.rs:535-542): the
\* window is dropped and the loop goes on.
ScanSkip ==
    /\ MoreInput
    /\ \E self \in {extend(scanner)} : \E r \in {parse_window(self)} :
          /\ ~r.ok
          /\ ~(self.strict /\ r.err = "InvalidProperties")
          /\ scanner' = advance(self)
          /\ trace' = Append(trace, Resolved(self, "Skipped", None))
    /\ UNCHANGED <<section, section_frame, blocks, scanned, item, status,
                   document, error>>
    /\ UNCHANGED driver

\* Err with InvalidProperties when strict (lib.rs:534): scan returns the
\* error and from_contents returns it (lib.rs:300).
ScanError ==
    /\ MoreInput
    /\ \E self \in {extend(scanner)} : \E r \in {parse_window(self)} :
          /\ ~r.ok
          /\ self.strict /\ r.err = "InvalidProperties"
          /\ scanner' = self
          /\ trace' = Append(trace, Resolved(self, "Error", None))
    /\ status' = "err"
    /\ error' = Some(BetwixtParseError_InvalidProperties)
    /\ UNCHANGED <<section, section_frame, blocks, scanned, item, document>>
    /\ UNCHANGED driver

\* The turn matches a result of the given kind: scan moves the window start
\* to its end and returns the result (lib.rs:523-526).
ScanMatched(kind) ==
    \E self \in {extend(scanner)} : \E r \in {parse_window(self)} :
       /\ r.ok /\ r.out.matched /\ r.out.result.kind = kind
       /\ scanner' = advance(self)
       /\ item' = Some(r.out.result)
       /\ scanned' = scanned + 1
       /\ trace' = Append(trace, Resolved(self, "Matched", Some(r.out.result)))

\* scan returns a Section and the Section arm runs.
MatchSection ==
    /\ MoreInput
    /\ ScanMatched("Section")
    /\ \E r \in {OnSection(section, section_frame, unwrap(item').part)} :
          IF r.panic
          THEN /\ status' = "panic"
               /\ UNCHANGED <<section, section_frame>>
          ELSE /\ section' = r.section
               /\ section_frame' = r.frame
               /\ UNCHANGED status
    /\ UNCHANGED <<blocks, document, error>>
    /\ UNCHANGED driver

\* scan returns a Code and the Code arm runs.
MatchCode ==
    /\ MoreInput
    /\ ScanMatched("Code")
    /\ \E r \in {OnCode(section, blocks, unwrap(item').part)} :
          /\ section' = r.section
          /\ blocks' = r.blocks
    /\ UNCHANGED <<section_frame, status, document, error>>
    /\ UNCHANGED driver

\* scan returns a Properties and the Properties arm runs.
MatchProperties ==
    /\ MoreInput
    /\ ScanMatched("Properties")
    /\ \E r \in {OnProperties(section, blocks, unwrap(item').lang, unwrap(item').props)} :
          /\ section' = r.section
          /\ blocks' = r.blocks
    /\ UNCHANGED <<section_frame, status, document, error>>
    /\ UNCHANGED driver

\* The window end has reached the end of the input: scan returns End
\* (lib.rs:546), the loop breaks and the tree is closed.
ScanAtEnd ==
    /\ scanner.slice[2] = Len(scanner.data)
    /\ EndStep

NextScan ==
    \/ ScanPartialMatch
    \/ ScanSkip
    \/ ScanError
    \/ MatchSection
    \/ MatchCode
    \/ MatchProperties
    \/ ScanAtEnd

SpecScan == InitScan /\ [][NextScan]_vars

\* from_contents is one sequential loop: it does not stop between two
\* turns.  A turn can be taken exactly while status is "running" (the window
\* is extended and resolved, or End is returned), so weak fairness of
\* NextScan, WF_vars(NextScan), is this formula.
Fairness == <>[](status = "running") => []<><<NextScan>>_vars

SpecScanFair == SpecScan /\ Fairness

----------------------------------------------------------------------------
(* Inputs for the grammar of the recognisers: one construct per input,      *)
(* made from its parts, scanned and built by the same actions.              *)

\* SpecSyntax: longest run of heading markers.
MaxMarkers == 10

\* s repeated n times.
RECURSIVE Rep(_, _)
Rep(s, n) == IF n = 0 THEN "" ELSE s \o Rep(s, n - 1)

\* A line made of blanks, a run of k markers, a gap and a text.
HeadingLine(lead, k, gap, text) == lead \o Rep("#", k) \o gap \o text

HeadingInputs ==
    {HeadingLine(lead, k, gap, text) \o "\n" :
        lead \in {"", " "}, k \in 1 .. MaxMarkers,
        gap \in {"", " ", "\t "}, text \in {"", "A", "A b"}}

\* Values given to mode: the four accepted forms, and words close to them.
ModeValues ==
    {"overwrite", "append", "prepend", "insert[x]", "insert[x y]", "insert[[]",
     "insert[]", "insert[]]", "insert[x]y", "insert[x]]", "insert[x", "insert",
     "insertx]", "overwritex", "appendoverwrite", "append ", " append",
     "Append", "", "prepend\n"}

\* An annotation that sets mode to v, quoted with |||.
ModeOpen == "<?btxt mode=|||"
ModeClose == "||| ?>\n"
ModeInputs == {ModeOpen \o v \o ModeClose : v \in ModeValues}

\* SpecSyntax: number of assignments in the body of an annotation.
MaxAssignments == 3

\* Assignments an annotation body is made of: a key, the text that assigns
\* it and the value assigned; valid ones (two of them for the same key), an
\* unknown key, a value whose quotes do not match, and a mode that is none.
Assignments ==
    {[key |-> "filename", text |-> "filename='f'", value |-> "f", valid |-> TRUE],
     [key |-> "tag", text |-> "tag='t'", value |-> "t", valid |-> TRUE],
     [key |-> "tag", text |-> "tag=\"u\"", value |-> "u", valid |-> TRUE],
     [key |-> "mode", text |-> "mode='append'", value |-> "append", valid |-> TRUE],
     [key |-> "ignore", text |-> "ignore=true", value |-> "true", valid |-> TRUE],
     [key |-> "tog", text |-> "tog='x'", value |-> "x", valid |-> FALSE],
     [key |-> "post", text |-> "post='x\"", value |-> "x", valid |-> FALSE],
     [key |-> "mode", text |-> "mode='bad'", value |-> "bad", valid |-> FALSE]}

\* The sequences of n different assignments.
RECURSIVE AssignmentSeqs(_)
AssignmentSeqs(n) ==
    IF n = 0 THEN {<<>>}
    ELSE UNION {{Append(s, a) : a \in Assignments \ {s[k] : k \in DOMAIN s}} :
                   s \in AssignmentSeqs(n - 1)}

\* The body that gives the assignments of s in that order, between blanks.
RECURSIVE BodyOf(_)
BodyOf(s) == IF s = <<>> THEN " " ELSE " " \o Head(s).text \o BodyOf(Tail(s))

AnnotationInputs ==
    {BETWIXT_TOKEN \o BodyOf(s) \o CLOSE_TOKEN \o "\n" :
        s \in UNION {AssignmentSeqs(n) : n \in 1 .. MaxAssignments}}

\* Lines after an opening fence: text, the delimiter after text, before
\* text, after a blank, before a blank, and alone.
FenceLines == {"x", "x'''", "'''y", " '''", "''' ", "'''"}

\* An opening fence, one or two of those lines, and a closing fence.
FenceInputs ==
    {FENCE \o "\n" \o a \o "\n" \o FENCE \o "\n" : a \in FenceLines}
    \cup {FENCE \o "\n" \o a \o "\n" \o b \o "\n" \o FENCE \o "\n" :
             a \in FenceLines, b \in FenceLines}

\* What follows a construct on its last line: nothing, blanks, a second
\* annotation, a heading, an annotation with an invalid body, the opener of
\* a fence or of an annotation.
Trailers ==
    {"", "  ", "<?btxt tag='u' ?>", " <?btxt tag='u' ?>", "# B", " # B",
     "<?btxt tog='x' ?>", "'''", "<?btxt"}

\* A heading, an annotation followed by a trailer on its line, and a line of
\* text.
TrailerLead == "# A\n<?btxt tag='t' ?>"
TrailerInputs == {TrailerLead \o r \o "\nx\n" : r \in Trailers}

\* Blanks and newlines before the first assignment of an annotation body,
\* between two assignments and after the last.
LeadingBlanks == {"", " ", "\n", " \n "}
InnerBlanks == {" ", "\n", "  \n"}
TrailingBlanks == {"", " ", "\n", " \n"}

\* A line of text, then an annotation whose body is two assignments with
\* blanks around them, or blanks only.
BlankLead == "x\n" \o BETWIXT_TOKEN
BlankInputs ==
    {BlankLead \o l \o "tag='t'" \o m \o "ignore=true" \o t \o CLOSE_TOKEN \o "\n" :
        l \in LeadingBlanks, m \in InnerBlanks, t \in TrailingBlanks}
    \cup {BlankLead \o w \o CLOSE_TOKEN \o "\n" : w \in {" ", "\n", " \n "}}

SyntaxInputs ==
    HeadingInputs \cup ModeInputs \cup AnnotationInputs \cup FenceInputs
    \cup TrailerInputs \cup BlankInputs

InitSyntax ==
    /\ InitBuilder
    /\ \E data \in SyntaxInputs, strict \in BOOLEAN :
         scanner = LineScanner_new(data, strict)
    /\ driver = NoDriver

SpecSyntax == InitSyntax /\ [][NextScan]_vars

----------------------------------------------------------------------------
(* Reading a section tree.                                                 *)

\* A section is identified by its heading slice; the root has none.
NodeId(s) == IF is_none(s.part.heading) THEN 0 ELSE unwrap(s.part.heading)

\* The nodes of the tree under s, each with its level, the id of its parent
\* (parent of the top node as given), its place among its siblings and its
\* own record.
RECURSIVE Flatten(_, _, _)
Flatten(s, parent, place) ==
    {[id |-> NodeId(s), level |-> s.part.level, parent |-> parent,
      place |-> place, sec |-> s]}
    \cup UNION {Flatten(s.children[i], NodeId(s), i) : i \in DOMAIN s.children}

\* The nodes of the returned document.
DocNodes == Flatten(unwrap(document).root, -1, 1)

\* The sections that are open while the loop runs: those held in the frame,
\* the current one, and everything already attached below them.
OpenNodes(sec, frame) ==
    Flatten(sec, -1, 1)
    \cup UNION {Flatten(unwrap(frame[i]), -1, 1) :
                  i \in {j \in DOMAIN frame : is_some(frame[j])}}

\* The sections built so far, each with its level and the parent it has or
\* is due to get: an attached section has the one whose children hold it;
\* the current section and the sections held in the frame are due the
\* section in the slot of their own level (-1 when that slot is empty, as
\* for the root).
Placement ==
    IF status = "ok"
    THEN {[id |-> n.id, level |-> n.level, parent |-> n.parent] : n \in DocNodes}
    ELSE LET tops == {section} \cup
                     {unwrap(section_frame[i]) :
                        i \in {j \in DOMAIN section_frame : is_some(section_frame[j])}}
             due(X) == IF is_some(section_frame[X.part.level])
                       THEN NodeId(unwrap(section_frame[X.part.level]))
                       ELSE -1
         IN UNION {{[id |-> n.id, level |-> n.level,
                     parent |-> IF n.id = NodeId(X) THEN due(X) ELSE n.parent] :
                      n \in Flatten(X, -1, 1)} : X \in tops}

\* The scan result matched last, when it is of the given kind.
LastIs(kind) == is_some(item) /\ unwrap(item).kind = kind

----------------------------------------------------------------------------
(* C1.  For every input whose headings have 1 to 9 markers and whose       *)
(* annotations are valid, from_contents returns Ok(Document) and never     *)
(* panics, whatever the order of heading levels, code blocks and           *)
(* annotations.  Every input of the model is such an input, so the claim   *)
(* is that no run panics.                                                  *)
C1_NeverPanics == status # "panic"

(* C2.  Parsing an input with no heading at all (the empty input           *)
(* included) returns a Document whose root has level 0, no heading and no  *)
(* children, and whose root code_block_indexes lists every emitted block.  *)
(* The current section is at level 0 exactly while no heading was seen.    *)
C2_NoHeadingDocument ==
    (LastIs("End") /\ section.part.level = 0) =>
        /\ status = "ok"
        /\ is_some(document)
        /\ LET doc == unwrap(document) IN
           /\ doc.root.part.level = 0
           /\ is_none(doc.root.part.heading)
           /\ doc.root.children = <<>>
           /\ doc.root.code_block_indexes =
                [i \in 1 .. Len(doc.code_blocks) |-> i - 1]

(* C3.  A heading that skips levels downward becomes a direct child of the *)
(* current section, with no node in between; when a later heading returns *)
(* to the shallower level, the deep section is below the first shallow     *)
(* section and the new section is that section's sibling under the same    *)
(* parent.  Stated of the sections as placed after every heading the       *)
(* builder has handled and in the returned document, for headings-only     *)
(* inputs, where heading n is the n-th construct.                          *)
C3_Returns(placed, x, y) ==
    /\ y.id > x.id + 1
    /\ y.level = x.level
    /\ \A z \in placed : (x.id < z.id /\ z.id < y.id) => z.level > x.level

\* C3: every heading has its section; a heading that skips levels has the
\* section before it as parent, and a heading returning to that section's
\* level has the parent that section has.
C3_LevelJump ==
    status # "panic" =>
        LET placed == Placement IN
        /\ \A i \in 0 .. scanned : \E n \in placed : n.id = i
        /\ \A x, d \in placed :
             (d.id = x.id + 1 /\ d.level > x.level + 1) =>
                 /\ d.parent = x.id
                 /\ \A y \in placed :
                      C3_Returns(placed, x, y) => (y.parent = x.parent /\ y.id # x.id)

\* A level-5 heading directly under a level-2 section, closed by a later
\* level-2 heading, in a returned document.
C3_Witness ==
    /\ status = "ok"
    /\ LET placed == Placement IN
       \E x, d, y \in placed :
         /\ x.level = 2 /\ d.id = x.id + 1 /\ d.level = 5
         /\ C3_Returns(placed, x, y)
         /\ d.parent = x.id /\ y.parent = x.parent

(* C4.  When a heading of level L arrives while the current section is     *)
(* deeper than L and slot L is empty, the next deeper open slot is         *)
(* promoted to slot L, every section still open deeper than L is detached  *)
(* and pushed into its own parent's children, no open section is lost and *)
(* the step completes (e.g. for headings of levels 2, 3, then 1).          *)
C4_Case ==
    /\ status = "running"
    /\ is_some(item') /\ unwrap(item').kind = "Section"
    /\ unwrap(item').part.level < section.part.level
    /\ is_none(section_frame[unwrap(item').part.level])

C4_Completes ==
    LET L == unwrap(item').part.level
        promoted == unwrap(section_frame[NextOccupied(section_frame, L + 1)])
    IN /\ status' = "running"
       /\ is_some(section_frame'[L])
       /\ NodeId(unwrap(section_frame'[L])) = NodeId(promoted)
       /\ \A i \in L + 1 .. FrameSize - 1 : is_none(section_frame'[i])
       /\ {n.id : n \in OpenNodes(section, section_frame)}
             \subseteq {n.id : n \in OpenNodes(section', section_frame')}

\* C4: every step of the case completes, promotes and detaches.
C4_PromoteAndDetach == [][C4_Case => C4_Completes]_vars

(* C5.  In every returned Document, every section in a section's children  *)
(* has a strictly greater level than that section.                         *)
C5_LevelMonotone ==
    status = "ok" =>
        \A n \in DocNodes : \A i \in DOMAIN n.sec.children :
            n.sec.children[i].part.level > n.sec.part.level

\* A returned tree three deep whose root has a shallower child after a
\* deeper one (the frame slot of the root was promoted).
C5_Witness ==
    /\ status = "ok"
    /\ \E n \in DocNodes : n.parent > 0
    /\ \E a, b \in DocNodes :
         a.parent = 0 /\ b.parent = 0 /\ a.place < b.place /\ a.level > b.level

(* C6.  Sibling insulation: when a heading arrives at the level of the     *)
(* current section or at a shallower one, the new section's env is a copy  *)
(* of the env of the section that becomes its parent, so nothing set       *)
(* inside the closing section reaches the new section.  The first part     *)
(* says the new env is that of the section held in the slot of the new     *)
(* level; the second that the section a slot designates as parent is the   *)
(* parent the section ends up with.                                        *)
C6_Step ==
    /\ (/\ status = "running" /\ status' = "running"
        /\ is_some(item') /\ unwrap(item').kind = "Section"
        /\ unwrap(item').part.level <= section.part.level)
       => LET L == unwrap(item').part.level IN
          /\ is_some(section_frame'[L])
          /\ section'.properties = unwrap(section_frame'[L]).properties
          /\ section'.part = unwrap(item').part
    /\ (status = "running" /\ status' # "panic") =>
          \A n \in Placement : n \in Placement'

\* C6: every step copies the env of the parent-to-be and keeps the parent
\* of every section.
C6_SiblingInsulation == [][C6_Step]_vars

\* A block emitted in a section whose closed sibling had set a filename:
\* the block has none.
C6_Witness ==
    /\ status = "running"
    /\ LastIs("Code")
    /\ section.part.level > 0
    /\ is_some(section_frame[section.part.level])
    /\ \E i \in DOMAIN unwrap(section_frame[section.part.level]).children :
         LET sib == unwrap(section_frame[section.part.level]).children[i] IN
         /\ sib.part.level = section.part.level
         /\ sib.properties.global.filename = Some("a")
    /\ blocks # <<>>
    /\ blocks[Len(blocks)].part = unwrap(item).part
    /\ is_none(blocks[Len(blocks)].properties.filename)

(* C7.  Inheritance and shadowing: a heading deeper than the current       *)
(* section opens a section whose env equals the current section's env at   *)
(* that moment; an annotation applied afterwards changes only the current  *)
(* section's env: the blocks already emitted keep their values, the        *)
(* sections held in the frame (the parent among them) are unchanged, and   *)
(* blocks emitted afterwards resolve against the changed env.              *)
C7_Step ==
    /\ (/\ status = "running" /\ status' = "running"
        /\ is_some(item') /\ unwrap(item').kind = "Section"
        /\ unwrap(item').part.level > section.part.level)
       => /\ section'.properties = section.properties
          /\ section_frame'[unwrap(item').part.level] = Some(section)
          /\ blocks' = blocks
    /\ (status = "running" /\ is_some(item') /\ unwrap(item').kind = "Properties")
       => /\ section_frame' = section_frame
          /\ SubSeq(blocks', 1, Len(blocks)) = blocks
          /\ section'.part = section.part
          /\ section'.children = section.children
          /\ LET it == unwrap(item') IN
             IF is_none(it.lang)
             THEN /\ section'.properties.languages = section.properties.languages
                  /\ \A f \in {"filename", "tag", "mode", "ignore", "prefix", "postfix"} :
                       section'.properties.global[f] =
                          IF is_some(it.props[f]) THEN it.props[f]
                          ELSE section.properties.global[f]
             ELSE section'.properties.global = section.properties.global
    /\ (/\ status = "running" /\ is_some(item') /\ unwrap(item').kind = "Code"
        /\ Len(blocks') > Len(blocks))
       => LET it == unwrap(item') IN
          (is_none(it.part.lang) \/ unwrap(it.part.lang) \notin DOMAIN section.properties.languages)
            => blocks'[Len(blocks')].properties = section.properties.global

\* C7: every step inherits on descent and shadows locally on annotation.
C7_InheritAndShadow == [][C7_Step]_vars

\* A block emitted in the outer section without a filename, then a child
\* section that sets one and emits a block with it, the parent held in the
\* frame still without.
C7_Witness ==
    /\ status = "running"
    /\ LastIs("Code")
    /\ section.part.level > 0
    /\ Len(blocks) = 2
    /\ is_none(blocks[1].properties.filename)
    /\ blocks[2].properties.filename = Some("a")
    /\ section.code_block_indexes = <<1>>
    /\ is_some(section_frame[section.part.level])
    /\ unwrap(section_frame[section.part.level]).code_block_indexes = <<0>>
    /\ is_none(unwrap(section_frame[section.part.level]).properties.global.filename)

(* C8.  Ignore consistency: after any sequence of headings, annotations,   *)
(* fenced code blocks and inline-code annotations, no element of           *)
(* code_blocks has effective ignore equal to true.                         *)
C8_IgnoreConsistency ==
    \A i \in DOMAIN blocks : blocks[i].properties.ignore # Some(TRUE)

(* C9.  A fenced code block whose resolved ignore is true changes nothing: *)
(* code_blocks and the current section's code_block_indexes stay as they   *)
(* were; one whose resolved ignore is false or absent appends exactly one  *)
(* Code and pushes exactly one index, the Code's position, into the        *)
(* current section.                                                        *)

\* The ignore value a block of the given language resolves to: the
\* language entry's when the entry sets it, the global one otherwise.
C9_ResolvedIgnore(sec, lang) ==
    LET langs == sec.properties.languages IN
    IF is_some(lang) /\ unwrap(lang) \in DOMAIN langs /\ is_some(langs[unwrap(lang)].ignore)
    THEN langs[unwrap(lang)].ignore
    ELSE sec.properties.global.ignore

C9_Step ==
    (status = "running" /\ is_some(item') /\ unwrap(item').kind = "Code") =>
        LET part == unwrap(item').part IN
        IF C9_ResolvedIgnore(section, part.lang) = Some(TRUE)
        THEN /\ blocks' = blocks
             /\ section' = section
        ELSE /\ Len(blocks') = Len(blocks) + 1
             /\ SubSeq(blocks', 1, Len(blocks)) = blocks
             /\ blocks'[Len(blocks')].part = part
             /\ section' = [section EXCEPT !.code_block_indexes =
                                            Append(@, Len(blocks') - 1)]

\* C9: every fenced block either changes nothing or appends one Code and
\* its position.
C9_FencedBlock == [][C9_Step]_vars

\* A fenced block dropped because ignore resolves to true, after another
\* one had been kept.
C9_Witness ==
    /\ status = "running"
    /\ LastIs("Code")
    /\ C9_ResolvedIgnore(section, unwrap(item).part.lang) = Some(TRUE)
    /\ Len(blocks) = 1
    /\ blocks[1].part.contents < unwrap(item).part.contents
    /\ blocks[1].part.lang = unwrap(item).part.lang

(* C10.  In every returned Document, every index in any section's          *)
(* code_block_indexes is a valid position of code_blocks, and the indexes  *)
(* of one section are strictly increasing in the order the blocks were     *)
(* parsed.                                                                 *)
C10_IndexesValid ==
    status = "ok" =>
        LET doc == unwrap(document) IN
        \A n \in DocNodes :
            LET idx == n.sec.code_block_indexes IN
            /\ \A i \in DOMAIN idx : 0 <= idx[i] /\ idx[i] < Len(doc.code_blocks)
            /\ \A i, j \in DOMAIN idx :
                 i < j => /\ idx[i] < idx[j]
                          /\ doc.code_blocks[idx[i] + 1].part.contents
                               < doc.code_blocks[idx[j] + 1].part.contents

\* A returned document in which one section holds a fenced block and an
\* inline one, and another section holds a block too.
C10_Witness ==
    /\ status = "ok"
    /\ \E n, m \in DocNodes :
         /\ n.id # m.id
         /\ Len(n.sec.code_block_indexes) = 2
         /\ Len(m.sec.code_block_indexes) = 1
         /\ \E i \in DOMAIN n.sec.code_block_indexes :
              unwrap(document).code_blocks[n.sec.code_block_indexes[i] + 1].properties.code # None

----------------------------------------------------------------------------
(* Claims about the property environment, checked under Spec.              *)

\* The fields of Properties that merge inherits.
MergedFields == {"filename", "tag", "mode", "ignore", "prefix", "postfix"}

\* The value the language override rule gives field f for a block of the
\* given language: the language entry's when the entry sets f, the global
\* one otherwise.
C12_Expected(env, lang, f) ==
    IF /\ is_some(lang)
       /\ unwrap(lang) \in DOMAIN env.languages
       /\ is_some(env.languages[unwrap(lang)][f])
    THEN env.languages[unwrap(lang)][f]
    ELSE env.global[f]

\* The scan result matched last has appended the last element of blocks.
EmittedLast ==
    /\ status = "running"
    /\ is_some(item)
    /\ blocks # <<>>
    /\ \/ /\ unwrap(item).kind = "Code"
          /\ blocks[Len(blocks)].part = unwrap(item).part
       \/ /\ unwrap(item).kind = "Properties"
          /\ is_some(unwrap(item).props.code)

\* The language of the scan result matched last.
LastLang ==
    IF unwrap(item).kind = "Code" THEN unwrap(item).part.lang ELSE unwrap(item).lang

(* C12.  Language override: the effective properties of a code block with  *)
(* language X are, field by field (filename, tag, mode, ignore, prefix,    *)
(* postfix), the value of the section's language entry for X when that     *)
(* entry sets the field, and otherwise the section's current global value; *)
(* a block with no language tag, or with a language that has no entry,     *)
(* gets exactly the global properties.  Stated of the block just emitted   *)
(* and the env of the section it was emitted in.                           *)
C12_LanguageOverride ==
    EmittedLast =>
        LET env == section.properties
            b == blocks[Len(blocks)]
        IN /\ \A f \in MergedFields : b.properties[f] = C12_Expected(env, LastLang, f)
           /\ (is_none(LastLang) \/ unwrap(LastLang) \notin DOMAIN env.languages)
                 => b.properties = env.global

\* A rust block emitted where the global filename is "a" and the rust entry
\* sets "c": the block has "c", and an earlier untagged block has "a".
C12_Witness ==
    /\ EmittedLast
    /\ unwrap(item).kind = "Code"
    /\ LastLang = Some("rust")
    /\ section.properties.global.filename = Some("a")
    /\ "rust" \in DOMAIN section.properties.languages
    /\ section.properties.languages["rust"].filename = Some("c")
    /\ blocks[Len(blocks)].properties.filename = Some("c")

(* C13.  A language-qualified annotation stores only its own fields merged *)
(* with the existing entry for that language (incoming wins) and never     *)
(* copies global values into the entry; consequently an unqualified        *)
(* annotation applied later in the same section leaves every language      *)
(* entry unchanged, blocks of that language keep the language-scoped value *)
(* for fields the entry sets, and they see the new global value for fields *)
(* the entry does not set.                                                 *)
C13_Step ==
    (status = "running" /\ is_some(item') /\ unwrap(item').kind = "Properties") =>
        LET it == unwrap(item')
            old == section.properties
            new == section'.properties
        IN IF is_some(it.lang)
           THEN LET l == unwrap(it.lang) IN
                /\ new.global = old.global
                /\ DOMAIN new.languages = DOMAIN old.languages \cup {l}
                /\ \A k \in DOMAIN old.languages : k # l => new.languages[k] = old.languages[k]
                /\ \A f \in MergedFields :
                     new.languages[l][f] =
                        IF is_some(it.props[f]) THEN it.props[f]
                        ELSE IF l \in DOMAIN old.languages THEN old.languages[l][f]
                        ELSE None
           ELSE /\ new.languages = old.languages
                /\ \A l \in DOMAIN new.languages : \A f \in MergedFields :
                     get_code_props(new, Some(l))[f] =
                        IF is_some(old.languages[l][f]) THEN old.languages[l][f]
                        ELSE new.global[f]

\* C13: every annotation step keeps language entries apart from the global
\* properties.
C13_LanguageEntryApart == [][C13_Step]_vars

\* An unqualified annotation applied after a rust-qualified one where a
\* global filename was already set: the rust entry still sets only its own
\* field, and rust blocks see the new global tag.
C13_Witness ==
    /\ status = "running"
    /\ LastIs("Properties")
    /\ is_none(unwrap(item).lang)
    /\ "rust" \in DOMAIN section.properties.languages
    /\ section.properties.languages["rust"].filename = Some("c")
    /\ is_none(section.properties.languages["rust"].tag)
    /\ section.properties.global.filename = Some("b")
    /\ get_code_props(section.properties, Some("rust")).filename = Some("c")
    /\ get_code_props(section.properties, Some("rust")).tag = Some("t")

(* C14.  An annotation carrying a code= field emits exactly one Code whose *)
(* contents is the code= payload, whose lang is the annotation's +lang     *)
(* qualifier (absent if none), and whose effective properties are resolved *)
(* for that language after the annotation's own other properties have been *)
(* applied to the current section's env; its index is pushed into the      *)
(* current section's code_block_indexes.                                   *)
C14_InlineCode ==
    (status = "running" /\ LastIs("Properties") /\ is_some(unwrap(item).props.code)) =>
        LET it == unwrap(item)
            env == section.properties
            idx == section.code_block_indexes
        IN /\ blocks # <<>>
           /\ Cardinality({i \in DOMAIN blocks :
                             blocks[i].part.contents = unwrap(it.props.code)}) = 1
           /\ LET b == blocks[Len(blocks)] IN
              /\ b.part.contents = unwrap(it.props.code)
              /\ b.part.lang = it.lang
              /\ \A f \in MergedFields :
                   /\ b.properties[f] = C12_Expected(env, it.lang, f)
                   /\ is_some(it.props[f]) => b.properties[f] = it.props[f]
           /\ idx # <<>>
           /\ idx[Len(idx)] = Len(blocks) - 1
           /\ \A i \in 1 .. Len(idx) - 1 : idx[i] < Len(blocks) - 1

\* A rust-qualified inline annotation that sets a tag, in a section whose
\* global filename is set: the block carries both, after an earlier block.
C14_Witness ==
    /\ status = "running"
    /\ LastIs("Properties")
    /\ is_some(unwrap(item).props.code)
    /\ unwrap(item).lang = Some("rust")
    /\ Len(blocks) = 2
    /\ blocks[2].properties.tag = Some("u")
    /\ blocks[2].properties.filename = Some("a")
    /\ is_none(blocks[1].properties.tag)
    /\ section.code_block_indexes = <<0, 1>>

(* C15.  After an inline-code annotation has been processed, its code=     *)
(* payload is not kept in the section's env (neither in global nor in the  *)
(* language entry): the effective properties of every later code block in  *)
(* that section and in sections opened under it carry no code value.       *)
C15_PayloadNotKept ==
    /\ is_none(section.properties.global.code)
    /\ \A l \in DOMAIN section.properties.languages :
         is_none(section.properties.languages[l].code)
    /\ \A i \in DOMAIN blocks :
         is_some(blocks[i].properties.code) =>
            blocks[i].properties.code = Some(blocks[i].part.contents)

----------------------------------------------------------------------------
(* Claims about the scanner, checked under SpecScan.                        *)

\* The windows the scanner has resolved so far.
TraceEntries == {trace[k] : k \in DOMAIN trace}

\* The first byte of the payload of a block lies in window w.
PayloadIn(b, w) ==
    /\ w[1] < b.part.contents.ptr
    /\ b.part.contents.ptr < w[2]

\* The windows whose construct a block was emitted for.
OpenersOf(b) ==
    {t.window : t \in {u \in TraceEntries :
                          u.outcome = "Matched" /\ PayloadIn(b, u.window)}}

\* C11: every emitted block belongs to exactly one matched window, whose
\* start is the offset of the block's opener, and the blocks are listed in
\* strictly increasing order of that offset; the document returned lists
\* the same blocks.
C11_EmissionOrder ==
    /\ \A i \in DOMAIN blocks : Cardinality(OpenersOf(blocks[i])) = 1
    /\ \A i, j \in DOMAIN blocks :
          i < j => \A wi \in OpenersOf(blocks[i]), wj \in OpenersOf(blocks[j]) :
                      wi[1] < wj[1]
    /\ is_some(document) => unwrap(document).code_blocks = blocks

\* Two blocks have been emitted, a fenced one and an inline one.
C11_Witness ==
    /\ Len(blocks) >= 2
    /\ \E i, j \in DOMAIN blocks :
          /\ \E t \in TraceEntries :
                t.outcome = "Matched" /\ t.result = Some(ScanResult_Code(blocks[i].part))
          /\ \E t \in TraceEntries :
                /\ t.outcome = "Matched" /\ is_some(t.result)
                /\ unwrap(t.result).kind = "Properties"
                /\ PayloadIn(blocks[j], t.window)

\* Where the body of an annotation begins when the window from p opens with
\* the start delimiter: after the delimiter and its language qualifier.
BodyStart(data, p, e) ==
    IF tag("+", data, p + Len(BETWIXT_TOKEN), e)
    THEN take_while(Alphanumeric, data, p + Len(BETWIXT_TOKEN) + 1, e)
    ELSE p + Len(BETWIXT_TOKEN)

\* Window w opens with the start delimiter of an annotation.
OpensAnnotation(w) == tag(BETWIXT_TOKEN, scanner.data, w[1], w[2])

\* Window w holds the end delimiter after the start delimiter it opens with.
ClosesAnnotation(w) ==
    /\ OpensAnnotation(w)
    /\ take_until(CLOSE_TOKEN, scanner.data,
                  BodyStart(scanner.data, w[1], w[2]), w[2]) >= 0

\* Window w is an annotation with both delimiters whose body is not a valid
\* property set.
InvalidAnnotation(w) ==
    /\ ClosesAnnotation(w)
    /\ ~properties(scanner.data, BodyStart(scanner.data, w[1], w[2]),
                   take_until(CLOSE_TOKEN, scanner.data,
                              BodyStart(scanner.data, w[1], w[2]), w[2])).ok

\* C16: the parse ends in an error exactly when the scanner, in strict mode,
\* has resolved a window that is an annotation with both delimiters and an
\* invalid body; the error comes without a Document, and no other window
\* (unmatched lines, unclosed openers) ends the parse in an error, in either
\* mode.
C16_StrictError ==
    /\ \A t \in TraceEntries :
          t.outcome = "Error" <=> (scanner.strict /\ InvalidAnnotation(t.window))
    /\ status = "err" <=> \E t \in TraceEntries : t.outcome = "Error"
    /\ status = "err" <=> is_some(error)
    /\ status = "err" => is_none(document)

\* A strict parse has ended in an error on an annotation of two lines, after a
\* line that matched no recogniser had been passed over.
C16_Witness ==
    /\ status = "err"
    /\ Len(trace) = 2
    /\ trace[1].outcome = "Skipped"
    /\ ~OpensAnnotation(trace[1].window)
    /\ Len(scanner.lines) = 3

\* The 1-based number of the line that holds the byte at offset p.
RECURSIVE LineOf(_, _)
LineOf(data, p) ==
    IF p <= 0 THEN 1
    ELSE LineOf(data, p - 1) + (IF SubSeq(data, p, p) = "\n" THEN 1 ELSE 0)

\* C17: the error of a strict parse names the annotation it is about: the
\* line of its opener, the line of its closing delimiter, and the bytes of
\* the scanner's window between them.
C17_ErrorLocatesAnnotation ==
    status = "err" =>
       /\ is_some(error)
       /\ {"line_start", "line_end", "literal"} \subseteq DOMAIN unwrap(error)
       /\ unwrap(error).line_start = LineOf(scanner.data, scanner.slice[1])
       /\ unwrap(error).line_end = LineOf(scanner.data, scanner.slice[2] - 1)
       /\ unwrap(error).literal =
             SubSeq(scanner.data, scanner.slice[1] + 1, scanner.slice[2])

\* The window the scanner resolved last.
LastResolved(tr) == tr[Len(tr)]

\* The offset just past the line that holds the end delimiter of the
\* annotation window w opens with, or the end of the input; -1 when there is
\* no end delimiter.
AfterClosingLine(w) ==
    LET len == Len(scanner.data)
        closer == take_until(CLOSE_TOKEN, scanner.data,
                             BodyStart(scanner.data, w[1], len), len)
        nl == IF closer < 0 THEN -1 ELSE take_until("\n", scanner.data, closer, len)
    IN IF closer < 0 THEN -1 ELSE IF nl >= 0 THEN nl + 1 ELSE len

\* A step in which a scanner that is not strict resolves an annotation with
\* an invalid body: the window runs from the opener to the end of the
\* closer's line and is skipped, the step leaves the section being built,
\* the open sections and the blocks as they were, and the next window begins
\* where the skipped one ends.
C18_SkipStep ==
    (/\ ~scanner.strict
     /\ Len(trace') = Len(trace) + 1
     /\ InvalidAnnotation(LastResolved(trace').window))
    => /\ LastResolved(trace').outcome = "Skipped"
       /\ LastResolved(trace').window[2] = AfterClosingLine(LastResolved(trace').window)
       /\ section' = section
       /\ section_frame' = section_frame
       /\ blocks' = blocks
       /\ status' = status
       /\ scanner'.slice = <<LastResolved(trace').window[2],
                             LastResolved(trace').window[2]>>

\* A step that resolves a window after a skipped annotation with an invalid
\* body: the window begins where the skipped one ends, and it is resolved as
\* the parser resolves it.
C18_NextStep ==
    (/\ ~scanner.strict
     /\ Len(trace') = Len(trace) + 1
     /\ Len(trace) >= 1
     /\ InvalidAnnotation(LastResolved(trace).window))
    => /\ LastResolved(trace').window[1] = LastResolved(trace).window[2]
       /\ LastResolved(trace').outcome = "Matched"
          <=> parser(scanner.data, LastResolved(trace').window[1],
                     LastResolved(trace').window[2]).ok

\* C18: a scanner that is not strict skips an annotation with matched
\* delimiters and an invalid body as a whole: nothing of it reaches an env
\* or the blocks, its lines are dropped, and scanning goes on with the line
\* after its closing delimiter, where later constructs are recognised.
C18_NonStrictSkip == [][C18_SkipStep /\ C18_NextStep]_vars

\* An annotation with an invalid body has been skipped under a heading, and
\* the annotation on the line after it has been applied to the section.
C18_Witness ==
    /\ ~scanner.strict
    /\ Len(trace) = 3
    /\ trace[1].outcome = "Matched"
    /\ trace[2].outcome = "Skipped"
    /\ InvalidAnnotation(trace[2].window)
    /\ trace[3].outcome = "Matched"
    /\ LastIs("Properties")
    /\ section.properties # EmptyCollection

\* The offset after the opening line of a fence that begins at p: the
\* delimiter, letters, blanks and a newline; -1 when p begins no such line.
FenceOpened(data, p) ==
    LET len == Len(data)
        q == take_while(Space, data,
                        take_while(Alphabetic, data, p + Len(FENCE), len), len)
    IN IF tag(FENCE, data, p, len) /\ tag("\n", data, q, len) THEN q + 1 ELSE -1

\* A fence opens at p and no closing fence (the delimiter followed by blanks
\* and a newline) stands anywhere after its opening line.
UnclosedFence(data, p) ==
    /\ FenceOpened(data, p) >= 0
    /\ is_none(locate_parser_match(FENCE, data, FenceOpened(data, p), Len(data)))

\* An annotation opens at p and no end delimiter stands after it.
UnclosedAnnotation(data, p) ==
    /\ tag(BETWIXT_TOKEN, data, p, Len(data))
    /\ take_until(CLOSE_TOKEN, data, BodyStart(data, p, Len(data)), Len(data)) < 0

Unclosed(data, p) == UnclosedFence(data, p) \/ UnclosedAnnotation(data, p)

\* C19: no window that begins at an opener never closed is ever resolved, so
\* neither it nor a construct on the lines after it is returned; once the
\* scanner's window begins at such an opener every resolved window lies
\* before it, no error is raised in either mode, and what the scan ends with
\* is End, with the window end at the end of the input, where every later
\* call returns End again.
C19_UnclosedOpener ==
    /\ \A t \in TraceEntries : ~Unclosed(scanner.data, t.window[1])
    /\ Unclosed(scanner.data, scanner.slice[1]) =>
          /\ \A t \in TraceEntries : t.window[2] <= scanner.slice[1]
          /\ status # "err" /\ is_none(error)
          /\ status # "running" =>
                /\ LastIs("End")
                /\ scanner.slice[2] = Len(scanner.data)
    /\ LastIs("End") => scanner.slice[2] = Len(scanner.data)

\* A strict scan has returned End with its window at a fence that is never
\* closed, and a heading stands on a line after the opener.
C19_Witness ==
    /\ scanner.strict
    /\ LastIs("End")
    /\ status = "ok"
    /\ UnclosedFence(scanner.data, scanner.slice[1])
    /\ \E q \in scanner.slice[1] + 1 .. Len(scanner.data) - 1 :
          section_("#", scanner.data, q, Len(scanner.data)).ok

\* The offset just past the line that holds the closing fence of the fence
\* that opens at p.
AfterClosingFence(data, p) ==
    LET len == Len(data)
        idx == locate_parser_match(FENCE, data, FenceOpened(data, p), len)
    IN IF is_none(idx) THEN -1
       ELSE take_until("\n", data, unwrap(idx), len) + 1

\* The resolved windows follow one another from the start of the input, and
\* the scanner's window begins where the last resolved one ends (at an error
\* it is still the window of the error).
WindowsInSequence ==
    /\ \A k \in DOMAIN trace :
          /\ trace[k].window[1] = (IF k = 1 THEN 0 ELSE trace[k - 1].window[2])
          /\ trace[k].window[1] < trace[k].window[2]
    /\ scanner.slice[1] =
          (IF trace = <<>> THEN 0
           ELSE IF status = "err" THEN LastResolved(trace).window[1]
           ELSE LastResolved(trace).window[2])

\* A window that begins at a fence opener is resolved as the code block the
\* opener begins and runs to the end of the line of its closing fence.
FenceWindow(t) ==
    FenceOpened(scanner.data, t.window[1]) >= 0 =>
       /\ t.window[2] = AfterClosingFence(scanner.data, t.window[1])
       /\ t.outcome = "Matched"
       /\ unwrap(t.result).kind = "Code"
       /\ unwrap(t.result).part.contents.ptr = FenceOpened(scanner.data, t.window[1])

\* A window that begins at an annotation opener runs to the end of the line
\* of its end delimiter and is resolved as that annotation, unless its body
\* is invalid.
AnnotationWindow(t) ==
    OpensAnnotation(t.window) =>
       /\ t.window[2] = AfterClosingLine(t.window)
       /\ \/ t.outcome = "Matched" /\ unwrap(t.result).kind = "Properties"
          \/ InvalidAnnotation(t.window)

\* C20: while the opener at the start of the window is unresolved the window
\* start stays where it is: the window is left open only at a fence or
\* annotation opener, every resolved window that begins at an opener runs to
\* the end of the opener's construct and is resolved as that construct, and
\* no resolved window begins inside another, so a heading or an annotation
\* opener on a line inside a code block or a multi-line annotation is never
\* returned.
C20_WindowPolicy ==
    /\ WindowsInSequence
    /\ \A t \in TraceEntries : FenceWindow(t) /\ AnnotationWindow(t)
    /\ \A t, u \in TraceEntries :
          ~(t.window[1] < u.window[1] /\ u.window[1] < t.window[2])
    /\ (scanner.slice[1] < scanner.slice[2] /\ status # "err") =>
          \/ FenceOpened(scanner.data, scanner.slice[1]) >= 0
          \/ OpensAnnotation(scanner.slice)

\* A code block has been returned whose window holds a heading line between
\* the fences, and the only resolved window is the block's.
C20_Witness ==
    /\ Len(trace) = 1
    /\ LastIs("Code")
    /\ \E q \in trace[1].window[1] + 1 .. trace[1].window[2] - 1 :
          /\ SubSeq(scanner.data, q, q) = "\n"
          /\ section_("#", scanner.data, q, Len(scanner.data)).ok

----------------------------------------------------------------------------
(* Claims about the grammar of the recognisers, checked under SpecSyntax.   *)

\* The run of markers at the start of the input.
MarkerRun == take_while({"#"}, scanner.data, 0, Len(scanner.data))

\* The input is a heading line: markers at column 0, blanks or tabs, and a
\* text that is not empty, up to the newline.
HeadingShape ==
    LET len == Len(scanner.data)
        gap == take_while(Space, scanner.data, MarkerRun, len)
    IN /\ MarkerRun > 0
       /\ gap > MarkerRun
       /\ take_until("\n", scanner.data, gap, len) > gap

\* C21: a line whose run of markers is longer than the deepest supported
\* level is plain text: no Section is returned for it, no section is opened
\* and the parse goes on to its end.
C21_LongMarkerRunIsText ==
    (HeadingShape /\ MarkerRun > MaxSupportedLevel) =>
       /\ \A t \in TraceEntries : t.outcome = "Skipped"
       /\ section = RootSection
       /\ status # "panic"

\* The input is an annotation that sets mode, and the value it gives.
IsModeInput == tag(ModeOpen, scanner.data, 0, Len(scanner.data))
ModeValue ==
    SubSeq(scanner.data, Len(ModeOpen) + 1, Len(scanner.data) - Len(ModeClose))

\* v is insert[X] with X not empty and without a closing bracket.
IsInsert(v) ==
    /\ Len(v) >= 9
    /\ SubSeq(v, 1, 7) = "insert["
    /\ SubSeq(v, Len(v), Len(v)) = "]"
    /\ \A k \in 8 .. Len(v) - 1 : SubSeq(v, k, k) # "]"

\* The byte strings that name a mode, and the mode each names.
IsMode(v) == v \in {"overwrite", "append", "prepend"} \/ IsInsert(v)
ModeNamed(v) ==
    CASE v = "overwrite" -> <<"Overwrite">>
      [] v = "append" -> <<"Append">>
      [] v = "prepend" -> <<"Prepend">>
      [] OTHER -> <<"Insert", SubSeq(v, 8, Len(v) - 1)>>

\* A TangleMode with the bytes of its marker.
ModeBytes(mode) ==
    IF mode[1] = "Insert" THEN <<"Insert", mode[2].bytes>> ELSE mode

\* C22: from_bytes succeeds exactly on overwrite, append, prepend and
\* insert[X] with X not empty and without a closing bracket, gives
\* Overwrite, Append, Prepend and Insert(X), distinct modes for distinct
\* values, and fails on every other value.
C22_FromBytes ==
    /\ (IsModeInput /\ trace # <<>>) =>
          /\ trace[1].outcome = "Matched" <=> IsMode(ModeValue)
          /\ trace[1].outcome = "Matched" =>
                /\ is_some(unwrap(trace[1].result).props.mode)
                /\ ModeBytes(unwrap(unwrap(trace[1].result).props.mode))
                      = ModeNamed(ModeValue)
    /\ \A v, w \in {u \in ModeValues : IsMode(u)} :
          v # w => ModeNamed(v) # ModeNamed(w)

\* An insert with a marker of several bytes has been accepted.
C22_Witness ==
    /\ IsModeInput
    /\ LastIs("Properties")
    /\ is_some(unwrap(item).props.mode)
    /\ ModeBytes(unwrap(unwrap(item).props.mode)) = <<"Insert", "x y">>

\* The input is an annotation made of assignments between blanks.
IsAnnotationInput ==
    /\ tag(BETWIXT_TOKEN \o " ", scanner.data, 0, Len(scanner.data))
    /\ ~IsModeInput

\* The words of text from offset p on, split at blanks, up to the end
\* delimiter.
RECURSIVE WordsFrom(_, _)
WordsFrom(text, p) ==
    LET len == Len(text)
        start == take_while({" "}, text, p, len)
        stop == take_until(" ", text, start, len)
    IN IF stop < 0 \/ tag(CLOSE_TOKEN, text, start, len) THEN <<>>
       ELSE <<SubSeq(text, start + 1, stop)>> \o WordsFrom(text, stop)

\* The assignments the input was made of, in its order.
Written ==
    LET words == WordsFrom(scanner.data, Len(BETWIXT_TOKEN))
    IN [k \in DOMAIN words |-> CHOOSE a \in Assignments : a.text = words[k]]

\* The value the assignments of s give to a key, if any.
Assigned(s, key) ==
    IF \E k \in DOMAIN s : s[k].key = key
    THEN Some((CHOOSE a \in {s[k] : k \in DOMAIN s} : a.key = key).value)
    ELSE None

\* The property set a body states, whatever the order of its assignments.
Stated(s) ==
    [filename |-> Assigned(s, "filename"),
     tag      |-> Assigned(s, "tag"),
     mode     |-> IF is_some(Assigned(s, "mode")) THEN Some(<<"Append">>) ELSE None,
     ignore   |-> IF is_some(Assigned(s, "ignore")) THEN Some(TRUE) ELSE None,
     prefix   |-> Assigned(s, "pre"),
     postfix  |-> Assigned(s, "post"),
     code     |-> Assigned(s, "code")]

\* A body is well formed when each assignment is and no key comes twice.
WellFormed(s) ==
    /\ \A k \in DOMAIN s : s[k].valid
    /\ \A j, k \in DOMAIN s : j # k => s[j].key # s[k].key

\* The bytes of an optional slice.
BytesOf(o) == IF is_some(o) THEN Some(unwrap(o).bytes) ELSE None

\* A property set with the bytes of its values.
PropertyBytes(props) ==
    [filename |-> BytesOf(props.filename),
     tag      |-> BytesOf(props.tag),
     mode     |-> IF is_some(props.mode) THEN Some(ModeBytes(unwrap(props.mode))) ELSE None,
     ignore   |-> props.ignore,
     prefix   |-> BytesOf(props.prefix),
     postfix  |-> BytesOf(props.postfix),
     code     |-> BytesOf(props.code)]

\* C24: an annotation whose body is well formed is accepted in every order
\* of its assignments, with the property set the assignments state; a body
\* with an unknown key, a key given twice, a value whose quotes do not match
\* or a mode that is none is not accepted, in whole: the annotation is
\* skipped, or is an error when strict.
C24_AnyOrder ==
    (IsAnnotationInput /\ trace # <<>>) =>
       /\ trace[1].outcome = "Matched" <=> WellFormed(Written)
       /\ trace[1].outcome = "Matched" =>
             /\ unwrap(trace[1].result).kind = "Properties"
             /\ PropertyBytes(unwrap(trace[1].result).props) = Stated(Written)
       /\ trace[1].outcome # "Matched" =>
             /\ trace[1].outcome = (IF scanner.strict THEN "Error" ELSE "Skipped")
             /\ section = RootSection

\* An annotation of three assignments has been accepted whose order is not
\* the order in which the parsers are tried: the tag comes before the
\* filename.
C24_Witness ==
    /\ IsAnnotationInput
    /\ LastIs("Properties")
    /\ Len(Written) = 3
    /\ Written[1].key = "tag"
    /\ Written[3].key = "filename"


\* The byte at offset p begins a line of the input.
LineStart(p) == p = 0 \/ SubSeq(scanner.data, p, p) = "\n"

\* The offset at which the contents of a code block end.
ContentsEnd(part) == part.contents.ptr + Len(part.contents.bytes)

\* A closing-fence line begins at offset q: the delimiter at the first
\* column, blanks and a newline.
ClosingFenceLine(q) ==
    /\ LineStart(q)
    /\ tag(FENCE, scanner.data, q, Len(scanner.data))
    /\ tag("\n", scanner.data,
           take_while(Space, scanner.data, q + Len(FENCE), Len(scanner.data)),
           Len(scanner.data))

\* C25: a code block ends only at a closing-fence line: its contents end
\* where the first closing-fence line after the opener begins, so they are
\* whole lines, empty or ended by a newline.
C25_ClosingFenceLine ==
    \A t \in TraceEntries :
       (t.outcome = "Matched" /\ unwrap(t.result).kind = "Code") =>
          LET part == unwrap(t.result).part
          IN /\ ClosingFenceLine(ContentsEnd(part))
             /\ \A q \in part.contents.ptr .. ContentsEnd(part) - 1 :
                   ~ClosingFenceLine(q)
             /\ \/ part.contents.bytes = ""
                \/ SubSeq(part.contents.bytes, Len(part.contents.bytes),
                          Len(part.contents.bytes)) = "\n"


\* The input is a line whose first byte after leading blanks is a marker.
IsHeadingInput ==
    tag("#", scanner.data,
        take_while({" "}, scanner.data, 0, Len(scanner.data)), Len(scanner.data))

\* The text of the line after the run of markers and the blanks and tabs
\* that follow it, up to the newline.
TextAfterMarkers ==
    LET len == Len(scanner.data)
        gap == take_while(Space, scanner.data, MarkerRun, len)
    IN SubSeq(scanner.data, gap + 1, take_until("\n", scanner.data, gap, len))

\* C26: a Section is returned for a line only if the line begins at column 0
\* with markers followed by at least one blank or tab and a text that is not
\* empty; its level is the number of markers and its heading the text up to
\* the newline, and so are those of the section it opens.  A line with a
\* blank before the markers or nothing between the markers and the text is
\* skipped.
C26_HeadingSyntax ==
    (IsHeadingInput /\ trace # <<>>) =>
       /\ trace[1].outcome = "Matched" =>
             /\ HeadingShape
             /\ unwrap(trace[1].result).kind = "Section"
             /\ unwrap(trace[1].result).part.level = MarkerRun
             /\ unwrap(trace[1].result).part.heading # None
             /\ unwrap(unwrap(trace[1].result).part.heading).bytes = TextAfterMarkers
             /\ unwrap(unwrap(trace[1].result).part.heading).ptr
                   = take_while(Space, scanner.data, MarkerRun, Len(scanner.data))
       /\ section # RootSection =>
             /\ HeadingShape
             /\ section.part = unwrap(trace[1].result).part
       /\ (MarkerRun = 0
           \/ take_while(Space, scanner.data, MarkerRun, Len(scanner.data)) = MarkerRun)
          => /\ trace[1].outcome = "Skipped"
             /\ section = RootSection

\* A heading of three markers, a tab and a blank, and a text of two words
\* has opened a section.
C26_Witness ==
    /\ IsHeadingInput
    /\ LastIs("Section")
    /\ section.part.level = 3
    /\ unwrap(section.part.heading).bytes = "A b"
    /\ unwrap(section.part.heading).ptr = 5


\* The input is an annotation followed by other bytes on its line.
IsTrailerInput == tag(TrailerLead, scanner.data, 0, Len(scanner.data))

\* The offset after the newline of the annotation's line.
TrailerLineEnd ==
    take_until("\n", scanner.data, Len(TrailerLead), Len(scanner.data)) + 1

\* C30: when the annotation is matched the window start moves to the start
\* of the next line whatever follows the annotation on its line: the window
\* resolved is the whole line, the bytes after the end delimiter are in no
\* other window and have no effect (the section keeps the tag the first
\* annotation gave, no section is opened, no error is returned), and the
\* next window is the next line.
C30_RestOfLineDropped ==
    (IsTrailerInput /\ Len(trace) >= 2) =>
       /\ trace[2].outcome = "Matched"
       /\ unwrap(trace[2].result).kind = "Properties"
       /\ trace[2].window = <<Len("# A\n"), TrailerLineEnd>>
       /\ BytesOf(section.properties.global.tag) = Some("t")
       /\ unwrap(section.part.heading).bytes = "A"
       /\ blocks = <<>>
       /\ status \in {"running", "ok"}
       /\ Len(trace) >= 3 =>
             /\ Len(trace) = 3
             /\ trace[3].window = <<TrailerLineEnd, Len(scanner.data)>>
             /\ trace[3].outcome = "Skipped"

\* A strict parse has ended with a Document after an annotation that was
\* followed on its line by a second annotation.
C30_Witness ==
    /\ IsTrailerInput
    /\ scanner.strict
    /\ status = "ok"
    /\ tag(BETWIXT_TOKEN \o " tag='u'", scanner.data, Len(TrailerLead), Len(scanner.data))


----------------------------------------------------------------------------
(* Claims about the update of the env by annotations, checked under Spec.  *)

\* The step processes an annotation without a code field.
PropertyOnlyStep ==
    /\ scanned' = scanned + 1
    /\ unwrap(item').kind = "Properties"
    /\ is_none(unwrap(item').props.code)

\* C28 on one step: an unqualified annotation without code gives each of the
\* six fields of global the annotation's value if it sets the field and the
\* previous value otherwise, leaves the language entries as they were, and
\* leaves no field unset that was set.
C28_Step ==
    (PropertyOnlyStep /\ is_none(unwrap(item').lang)) =>
        LET a == unwrap(item').props
            g == section.properties.global
            h == section'.properties.global
        IN /\ \A f \in MergedFields :
                 h[f] = IF is_some(a[f]) THEN a[f] ELSE g[f]
           /\ section'.properties.languages = section.properties.languages
           /\ \A f \in MergedFields : is_some(g[f]) => is_some(h[f])

\* C28: an unqualified property-only annotation replaces global by the
\* field-wise merge in which the annotation's value wins where it is set and
\* the previous value is kept otherwise; the language entries are unchanged
\* and a field that is set stays set.
C28_GlobalMerge == [][C28_Step]_vars

\* An unqualified annotation setting only ignore has been processed in a
\* section whose global already had a filename and a language entry: the
\* filename is kept, ignore is the annotation's.
C28_Witness ==
    /\ status = "running"
    /\ is_some(item)
    /\ unwrap(item).kind = "Properties"
    /\ is_none(unwrap(item).lang)
    /\ is_none(unwrap(item).props.code)
    /\ is_none(unwrap(item).props.filename)
    /\ unwrap(item).props.ignore = Some(TRUE)
    /\ section.properties.global.filename = Some("a")
    /\ section.properties.global.ignore = Some(TRUE)
    /\ DOMAIN section.properties.languages = {"rust"}

\* The properties an annotation is merged into: global, or the entry of its
\* language if there is one.
TargetOf(env, lang) ==
    IF is_none(lang) THEN Some(env.global)
    ELSE IF contains_key(env.languages, unwrap(lang))
         THEN Some(env.languages[unwrap(lang)])
         ELSE None

\* Every field the annotation sets has that value in the target already.
SetsCurrentValues(a, target) ==
    /\ is_some(target)
    /\ \A f \in MergedFields : is_some(a[f]) => unwrap(target)[f] = a[f]

\* C29 on one step: a property-only annotation that sets fields to the
\* values they already have (as the same annotation applied a second time
\* does) leaves the section's env as it was.
C29_Step ==
    (/\ PropertyOnlyStep
     /\ SetsCurrentValues(unwrap(item').props,
                          TargetOf(section.properties, unwrap(item').lang)))
        => section'.properties = section.properties

\* C29: applying a property-only annotation that sets fields to the values
\* they already have, such as the repetition of the annotation just applied,
\* leaves the env of the section, and so the Document, as without it.
C29_Idempotent == [][C29_Step]_vars


----------------------------------------------------------------------------
(* tangle (main.rs:94-209): the input is parsed by from_contents with the  *)
(* scanner strict unless --no-strict is given, then each block of          *)
(* code_blocks is filtered by tag and written to its file.  The output     *)
(* directory and the input file exist; no block is executed (no -e).       *)

\* SpecTangle: number of constructs in the input.
MaxConstructs == 2

\* The annotations of the inputs: they name a file, a tag, a mode, a prefix
\* and a postfix, or have an unknown key.
TangleAnnotations ==
    {"<?btxt filename='f' tag='t' mode='overwrite' pre='p' post='q' ?>\n",
     "<?btxt filename='g' mode='append' ?>\n",
     "<?btxt tag='t' mode='prepend' ?>\n",
     "<?btxt tag='u' mode='insert[m]' ?>\n",
     "<?btxt filename='g' ?>\n",
     "<?btxt tog='x' ?>\n"}

\* The constructs of the inputs: a fenced block, alone or after an
\* annotation, and an inline code annotation.
Constructs ==
    {a \o FENCE \o "\nx\n" \o FENCE \o "\n" : a \in TangleAnnotations \cup {""}}
    \cup {"<?btxt code='c' ?>\n"}

\* The inputs of exactly n constructs.
RECURSIVE Documents(_)
Documents(n) ==
    IF n = 0 THEN {""}
    ELSE {d \o c : d \in Documents(n - 1), c \in Constructs}

\* The inputs: at most MaxConstructs constructs, under a heading or not.
TangleInputs ==
    {h \o d : h \in {"", "# A\n"},
              d \in UNION {Documents(n) : n \in 1 .. MaxConstructs}}

\* The files a block can name.
FileNames == {"f", "g"}

\* The output directory before the run: empty, or with both files.
InitialFiles ==
    {[n \in FileNames |-> None], [n \in FileNames |-> Some("old")]}

\* cli.tag (-t): no filter, or the tag t.
TagFilters == {None, Some("t")}

\* cli.no_strict: strict is !cli.no_strict (main.rs:123).
no_strict == ~scanner.strict

InitTangle ==
    /\ InitBuilder
    /\ \E data \in TangleInputs, strict \in BOOLEAN :
         scanner = LineScanner_new(data, strict)
    /\ \E filter \in TagFilters, files \in InitialFiles :
         driver = [phase |-> "run", tag |-> filter, files |-> files,
                   next |-> 0, log |-> <<>>]

\* from_contents(...).context("strict mode: failed to parse")? : an Err is
\* returned to the caller; a panic of from_contents ends the process.
TangleParseFailed ==
    /\ driver.phase = "run"
    /\ status \in {"err", "panic"}
    /\ driver' = [driver EXCEPT !.phase = status]
    /\ UNCHANGED <<section, section_frame, blocks, scanned, item, status,
                   document, scanner, error, trace>>

\* The block the loop over markdown.code_blocks is at.
InLoop ==
    /\ driver.phase = "run"
    /\ status = "ok"
    /\ driver.next < Len(unwrap(document).code_blocks)

block == unwrap(document).code_blocks[driver.next + 1]

\* The tag filter (main.rs:135-144): without a filter every block passes;
\* with one, a block passes if it has a tag and the tag is the filter.
passes(filter, b) ==
    IF is_none(filter) THEN TRUE
    ELSE /\ is_some(b.properties.tag)
         /\ unwrap(b.properties.tag).bytes = unwrap(filter)

\* continue
Continue == driver' = [driver EXCEPT !.next = @ + 1]

\* return Err(..)
ReturnErr == driver' = [driver EXCEPT !.phase = "err"]

\* The block does not pass the filter: continue.
TangleFiltered ==
    /\ InLoop
    /\ ~passes(driver.tag, block)
    /\ Continue
    /\ UNCHANGED <<section, section_frame, blocks, scanned, item, status,
                   document, scanner, error, trace>>

\* The block has no mode (main.rs:199-206): an error when strict, skipped
\* otherwise.
TangleNoMode ==
    /\ InLoop
    /\ passes(driver.tag, block)
    /\ is_none(block.properties.mode)
    /\ IF ~no_strict THEN ReturnErr ELSE Continue
    /\ UNCHANGED <<section, section_frame, blocks, scanned, item, status,
                   document, scanner, error, trace>>

\* The block has a mode and no filename (main.rs:191-198): an error when
\* strict, skipped otherwise.
TangleNoFilename ==
    /\ InLoop
    /\ passes(driver.tag, block)
    /\ is_some(block.properties.mode)
    /\ is_none(block.properties.filename)
    /\ IF ~no_strict THEN ReturnErr ELSE Continue
    /\ UNCHANGED <<section, section_frame, blocks, scanned, item, status,
                   document, scanner, error, trace>>

\* OpenOptions::open: Overwrite creates the file or truncates it; Append
\* opens an existing file at its end and fails if there is none.  The
\* result is the contents the writes are added to.
open(mode, file) ==
    IF mode = Overwrite THEN Some("")
    ELSE IF mode = TangleMode_Append THEN file
    ELSE None

\* The block has a mode and a filename.
HasTarget(b) ==
    /\ is_some(b.properties.mode)
    /\ is_some(b.properties.filename)

\* The file the block names.
target(b) == unwrap(b.properties.filename).bytes

\* The mode is Prepend or Insert (panic!, main.rs:169-174), or Append and
\* the file does not exist (unwrap of the open error, main.rs:160-168).
TanglePanic ==
    /\ InLoop
    /\ passes(driver.tag, block)
    /\ HasTarget(block)
    /\ is_none(open(unwrap(block.properties.mode), driver.files[target(block)]))
    /\ driver' = [driver EXCEPT !.phase = "panic"]
    /\ UNCHANGED <<section, section_frame, blocks, scanned, item, status,
                   document, scanner, error, trace>>

\* Variant of write_all_parts with the slip of writing the postfix before
\* the contents.
write_all_parts_PostfixFirst(file, b) ==
    file \o (IF is_some(b.properties.prefix)
             THEN unwrap(b.properties.prefix).bytes ELSE "")
         \o (IF is_some(b.properties.postfix)
             THEN unwrap(b.properties.postfix).bytes ELSE "")
         \o b.part.contents.bytes

\* The three writes (main.rs:176-185): the prefix if there is one, the
\* contents, the postfix if there is one.
write_all_parts(file, b) ==
    file \o (IF is_some(b.properties.prefix)
             THEN unwrap(b.properties.prefix).bytes ELSE "")
         \o b.part.contents.bytes
         \o (IF is_some(b.properties.postfix)
             THEN unwrap(b.properties.postfix).bytes ELSE "")

\* The mode is Overwrite, or Append to a file that exists: the file is
\* opened and the block is written to it (main.rs:149-185).
TangleWrite ==
    /\ InLoop
    /\ passes(driver.tag, block)
    /\ HasTarget(block)
    /\ \E file \in {open(unwrap(block.properties.mode), driver.files[target(block)])} :
          /\ is_some(file)
          /\ driver' = [driver EXCEPT
                          !.files[target(block)] =
                              Some(write_all_parts(unwrap(file), block)),
                          !.log = Append(@, driver.next + 1),
                          !.next = @ + 1]
    /\ UNCHANGED <<section, section_frame, blocks, scanned, item, status,
                   document, scanner, error, trace>>

\* The loop is over: Ok(()) (main.rs:208).
TangleDone ==
    /\ driver.phase = "run"
    /\ status = "ok"
    /\ driver.next = Len(unwrap(document).code_blocks)
    /\ driver' = [driver EXCEPT !.phase = "ok"]
    /\ UNCHANGED <<section, section_frame, blocks, scanned, item, status,
                   document, scanner, error, trace>>

NextTangle ==
    \/ NextScan
    \/ TangleParseFailed
    \/ TangleFiltered
    \/ TangleNoMode
    \/ TangleNoFilename
    \/ TanglePanic
    \/ TangleWrite
    \/ TangleDone

SpecTangle == InitTangle /\ [][NextTangle]_vars


----------------------------------------------------------------------------
(* Claims about tangle, checked under SpecTangle.                          *)

\* The bytes of an optional slice, nothing if there is none.
PartBytes(o) == IF is_some(o) THEN unwrap(o).bytes ELSE ""

\* The contents of a file, nothing if the file does not exist.
ContentsOf(name) ==
    IF is_some(driver.files[name]) THEN unwrap(driver.files[name]) ELSE ""

\* What a block adds to its file: prefix, contents, postfix.
Written_(b) ==
    PartBytes(b.properties.prefix) \o b.part.contents.bytes
        \o PartBytes(b.properties.postfix)

\* The block's effective tag is the filter, or there is no filter.
TagMatches(b) ==
    is_none(driver.tag) \/ BytesOf(b.properties.tag) = driver.tag

\* The step handles the block the loop is at.
HandlesBlock == InLoop /\ driver' # driver

\* C23 on one step: a block that passes the filter, names a file and has no
\* mode in its effective properties (no annotation in scope set one) is
\* appended to its file.
C23_Step ==
    (/\ HandlesBlock
     /\ TagMatches(block)
     /\ is_some(block.properties.filename)
     /\ is_none(block.properties.mode))
        => /\ driver'.phase = "run"
           /\ driver'.log = Append(driver.log, driver.next + 1)
           /\ driver'.files[target(block)] =
                 Some(ContentsOf(target(block)) \o Written_(block))

\* C23: when no annotation in scope sets mode, the block is handled with
\* mode Append: the driver appends it to its file.
C23_DefaultAppend == [][C23_Step]_vars

\* The blocks of the Document whose effective tag is the filter.
Tagged ==
    {i \in DOMAIN unwrap(document).code_blocks :
        TagMatches(unwrap(document).code_blocks[i])}

Writable(b) ==
    /\ is_some(b.properties.filename)
    /\ is_some(b.properties.mode)
    /\ \/ unwrap(b.properties.mode) = Overwrite
       \/ /\ unwrap(b.properties.mode) = TangleMode_Append
          /\ is_some(driver.files[target(b)])

\* C27 on one step: the step handles the block after the one handled last;
\* a block is written only if its tag matches and it names a file, and it
\* is written if moreover its mode is overwrite, or append with the file
\* existing; the file of a written block gets the prefix, the contents and
\* the postfix, in that order, after its old contents or, with Overwrite,
\* as its whole contents; no other file changes.
C27_Step ==
    HandlesBlock =>
        /\ driver'.tag = driver.tag
        /\ driver'.phase = "run" => driver'.next = driver.next + 1
        /\ (TagMatches(block) /\ Writable(block)) => driver'.log # driver.log
        /\ IF driver'.log # driver.log
           THEN /\ TagMatches(block)
                /\ is_some(block.properties.filename)
                /\ driver'.phase = "run"
                /\ driver'.log = Append(driver.log, driver.next + 1)
                /\ driver'.files =
                      [driver.files EXCEPT ![target(block)] =
                          Some((IF block.properties.mode = Some(Overwrite)
                                THEN "" ELSE ContentsOf(target(block)))
                               \o Written_(block))]
           ELSE driver'.files = driver.files

----------------------------------------------------------------------------
(* Termination of the scan, checked under SpecScanFair.                    *)

\* Offsets are 0-based: the byte at offset k is data[k + 1].
ByteAt(k) == SubSeq(scanner.data, k + 1, k + 1)

\* C31 on one step: a turn of the scanner moves the window end forward by
\* at least one byte and by exactly one line (to the offset after the next
\* newline, or to the end of the input if there is none) and never past the
\* end of the input; End is returned when, and only when, the window end
\* is the length of the input.
C31_Step ==
    /\ scanner' # scanner =>
          LET end == scanner.slice[2]
              new == scanner'.slice[2]
          IN /\ new >= end + 1
             /\ new <= Len(scanner.data)
             /\ \A k \in end .. new - 2 : ByteAt(k) # "\n"
             /\ ByteAt(new - 1) = "\n" \/ new = Len(scanner.data)
             /\ scanner'.data = scanner.data
    /\ (status = "running" /\ scanner.slice[2] = Len(scanner.data)) =>
          /\ scanner' = scanner
          /\ item' = Some(ScanResult_End)
    /\ (item' = Some(ScanResult_End) /\ item # Some(ScanResult_End)) =>
          scanner.slice[2] = Len(scanner.data)

\* C31: every turn of the scanner extends the window end by at least one
\* byte and exactly one line, the window end never exceeds the input
\* length, End is returned once the window end is the input length, and
\* from_contents returns on every input.
C31_Terminates ==
    /\ [][C31_Step]_vars
    /\ <>(status # "running")

\* from_contents has returned a Document for an input of three lines, the
\* last without its newline, after three windows of one line each.
C31_Witness ==
    /\ status = "ok"
    /\ item = Some(ScanResult_End)
    /\ Len(scanner.lines) = 3
    /\ Len(trace) = 3
    /\ scanner.slice = <<Len(scanner.data), Len(scanner.data)>>
    /\ ByteAt(Len(scanner.data) - 1) # "\n"


\* The input is a line of text and an annotation with blanks in its body.
IsBlankInput == tag(BlankLead, scanner.data, 0, Len(scanner.data))

\* The properties the body states: the two assignments if it has them,
\* nothing if it is made of blanks.
BlankStated ==
    IF take_until("tag=", scanner.data, 0, Len(scanner.data)) >= 0
    THEN [DefaultProperties EXCEPT !.tag = Some("t"), !.ignore = Some(TRUE)]
    ELSE DefaultProperties

\* C32: blanks and newlines before the first assignment of an annotation
\* body, between assignments and after the last do not change whether the
\* body is accepted nor the properties: a body that ends with a newline and
\* a body of blanks only are accepted.
C32_BlanksIgnored ==
    (IsBlankInput /\ Len(trace) >= 2) =>
       /\ trace[2].outcome = "Matched"
       /\ unwrap(trace[2].result).kind = "Properties"
       /\ PropertyBytes(unwrap(trace[2].result).props) = BlankStated


----------------------------------------------------------------------------
(* The open-section slots, checked under SpecTree.                         *)

\* The indexes of the occupied slots of section_frame.
Occupied == {i \in DOMAIN section_frame : is_some(section_frame[i])}

\* The occupied slots above index i (shallower levels).
Shallower(i) == {j \in Occupied : j < i}

\* Largest element of a non-empty set of numbers.
Max(S) == CHOOSE m \in S : \A n \in S : n <= m

\* The slots after a heading: none deeper than the current level is
\* occupied, the slot of the current level is, and each occupied slot holds
\* a section whose level is the index of the next shallower occupied slot,
\* the shallowest holding the root.
SlotsChained ==
    /\ \A i \in Occupied : i <= section.part.level
    /\ section.part.level \in Occupied
    /\ \A i \in Occupied :
          IF Shallower(i) = {}
          THEN unwrap(section_frame[i]).part.level = 0
          ELSE unwrap(section_frame[i]).part.level = Max(Shallower(i))

\* C33: after every processed heading the slots are chained as above, so
\* that no lookup of the parent slot of a section finds the slot empty.
C33_SlotsChained ==
    scanned >= 1 =>
       /\ status # "panic"
       /\ status = "running" => SlotsChained


----------------------------------------------------------------------------
(* The returned tree against the order of the document.                    *)

\* The ids of the sections under s in pre-order, children in stored order,
\* from the i-th child on.
RECURSIVE Preorder(_)
RECURSIVE PreorderFrom(_, _)
PreorderFrom(s, i) ==
    IF i > Len(s.children) THEN <<>>
    ELSE Preorder(s.children[i]) \o PreorderFrom(s, i + 1)
Preorder(s) == <<NodeId(s)>> \o PreorderFrom(s, 1)

\* C34: the returned tree holds the root and one node for each heading,
\* each once, and its pre-order traversal visits the headings in the order
\* of the document.  In a headings-only input the n-th heading has id n and
\* the root id 0, so the traversal is 0, 1, ..., scanned.
C34_Conservation ==
    status = "ok" =>
        Preorder(unwrap(document).root) = [i \in 1 .. scanned + 1 |-> i - 1]

\* A document of five headings is returned whose levels go down by two,
\* come back by one, go down and come back to the first level: the tree has
\* two sections under the root, the first with two children.
C34_Witness ==
    /\ status = "ok"
    /\ scanned = 5
    /\ LET root == unwrap(document).root IN
       /\ Len(root.children) = 2
       /\ root.children[1].part.level = 1
       /\ Len(root.children[1].children) = 2
       /\ root.children[1].children[1].part.level = 3
       /\ root.children[1].children[2].part.level = 2
       /\ Len(root.children[1].children[2].children) = 1
       /\ root.children[2].part.level = 1


\* The sections of the returned document that list position p of
\* code_blocks.
OwnersOf(p) ==
    {n \in DocNodes :
        \E i \in DOMAIN n.sec.code_block_indexes : n.sec.code_block_indexes[i] = p}

\* How many times section n lists position p.
TimesListed(n, p) ==
    Cardinality({i \in DOMAIN n.sec.code_block_indexes :
                    n.sec.code_block_indexes[i] = p})

\* The section open when the construct at place c of the document was
\* scanned: the one of the last heading before c, the root (id 0) if there
\* is none.  A construct is identified by its place in the document.
OpenAt(c) == Max({n.id : n \in {m \in DocNodes : m.id < c}})

\* C35: in every returned Document each position of code_blocks is listed
\* by exactly one section, once, and that section is the one opened by the
\* last heading before the block, the root if no heading precedes it.
C35_Ownership ==
    status = "ok" =>
        LET doc == unwrap(document) IN
        \A p \in 0 .. Len(doc.code_blocks) - 1 :
            /\ Cardinality(OwnersOf(p)) = 1
            /\ \A n \in OwnersOf(p) :
                 /\ TimesListed(n, p) = 1
                 /\ n.id = OpenAt(doc.code_blocks[p + 1].part.contents)

\* A returned document with a block before the first heading, listed by the
\* root, and two blocks after it, listed by the section of the heading.
C35_Witness ==
    /\ status = "ok"
    /\ LET doc == unwrap(document) IN
       /\ Len(doc.code_blocks) = 3
       /\ doc.root.code_block_indexes = <<0>>
       /\ Len(doc.root.children) = 1
       /\ doc.root.children[1].code_block_indexes = <<1, 2>>

====
